---- MODULE Spec2Model ----
(***************************************************************************)
(* Geotagging metadata codec and batch write-back engine of                *)
(* Aerial-Image-Manager (python/geotagging/write_gps.py and                *)
(* python/geotagging/extract_gps.py).                                      *)
(*                                                                         *)
(* Text is modelled as a sequence of one-character strings, a byte string  *)
(* likewise (the zero byte is the element "NUL").  A float is modelled as  *)
(* a signed decimal with FracDigits fractional digits, or NaN; an absent   *)
(* value (Python's None) is the record None.                               *)
(***************************************************************************)
EXTENDS Integers, Sequences, FiniteSets, TLC

\* ------------------------------------------------------------------ text

None == [kind |-> "none"]

NoText == <<"NONE">>

DigitChars == <<"0", "1", "2", "3", "4", "5", "6", "7", "8", "9">>

IsDigit(c) == \E i \in 1..10 : DigitChars[i] = c

DigitVal(c) == (CHOOSE i \in 1..10 : DigitChars[i] = c) - 1

AllDigits(t) == \A i \in 1..Len(t) : IsDigit(t[i])

UpperChars == <<"A", "B", "E", "F", "G", "J", "P", "I", "L", "N", "M", "T", "U", "D", "O", "H", "K", "X", "Y">>

LowerChars == <<"a", "b", "e", "f", "g", "j", "p", "i", "l", "n", "m", "t", "u", "d", "o", "h", "k", "x", "y">>

\* str.lower() on one character
LowerChar(c) ==
    IF \E i \in 1..Len(UpperChars) : UpperChars[i] = c
    THEN LowerChars[CHOOSE i \in 1..Len(UpperChars) : UpperChars[i] = c]
    ELSE c

Lower(t) == [i \in 1..Len(t) |-> LowerChar(t[i])]

IsSpace(c) == c = " "

RECURSIVE LStrip(_)
LStrip(t) == IF t /= <<>> /\ IsSpace(Head(t)) THEN LStrip(Tail(t)) ELSE t

RECURSIVE RStrip(_)
RStrip(t) ==
    IF t /= <<>> /\ IsSpace(t[Len(t)]) THEN RStrip(SubSeq(t, 1, Len(t) - 1)) ELSE t

\* str.strip()
Strip(t) == RStrip(LStrip(t))

\* index of the first occurrence of character c in t, 0 when there is none
RECURSIVE IndexOfFrom(_, _, _)
IndexOfFrom(t, c, i) ==
    IF i > Len(t) THEN 0
    ELSE IF t[i] = c THEN i
    ELSE IndexOfFrom(t, c, i + 1)

IndexOf(t, c) == IndexOfFrom(t, c, 1)

\* str.split(c)
RECURSIVE SplitOn(_, _)
SplitOn(t, c) ==
    LET i == IndexOf(t, c)
    IN  IF i = 0 THEN <<t>>
        ELSE <<SubSeq(t, 1, i - 1)>> \o SplitOn(SubSeq(t, i + 1, Len(t)), c)

RECURSIVE Pow10(_)
Pow10(n) == IF n = 0 THEN 1 ELSE 10 * Pow10(n - 1)

\* value of a digit string
RECURSIVE DigitsToNat(_)
DigitsToNat(t) ==
    IF t = <<>> THEN 0
    ELSE 10 * DigitsToNat(SubSeq(t, 1, Len(t) - 1)) + DigitVal(t[Len(t)])

\* decimal digits of a natural number, most significant first
RECURSIVE NatToDigits(_)
NatToDigits(n) ==
    IF n < 10 THEN <<DigitChars[n + 1]>>
    ELSE NatToDigits(n \div 10) \o <<DigitChars[(n % 10) + 1]>>

RECURSIVE ZeroPad(_, _)
ZeroPad(t, width) == IF Len(t) >= width THEN t ELSE ZeroPad(<<"0">> \o t, width)

RECURSIVE StripTrailingZeros(_)
StripTrailingZeros(t) ==
    IF Len(t) > 1 /\ t[Len(t)] = "0"
    THEN StripTrailingZeros(SubSeq(t, 1, Len(t) - 1))
    ELSE t

\* ---------------------------------------------------------------- floats

\* fractional decimal digits a modelled float carries
FracDigits == 8

Scale == Pow10(FracDigits)

Fin(neg, whole, frac) == [kind |-> "fin", neg |-> neg, whole |-> whole, frac |-> frac]

NaN == [kind |-> "nan"]

IsFin(x) == x.kind = "fin"

IsZero(x) == IsFin(x) /\ x.whole = 0 /\ x.frac = 0

\* x <= y on floats; any comparison with NaN is false
MagLeq(x, y) == x.whole < y.whole \/ (x.whole = y.whole /\ x.frac <= y.frac)

FloatLeq(x, y) ==
    /\ IsFin(x)
    /\ IsFin(y)
    /\ LET xn == x.neg /\ ~IsZero(x)
           yn == y.neg /\ ~IsZero(y)
       IN  \/ xn /\ ~yn
           \/ ~xn /\ ~yn /\ MagLeq(x, y)
           \/ xn /\ yn /\ MagLeq(y, x)

FloatGeqZero(x) == FloatLeq(Fin(FALSE, 0, 0), x)

FloatAbs(x) == IF IsFin(x) THEN [x EXCEPT !.neg = FALSE] ELSE x

\* ------------------------------------------------- float <-> text

\* float.__repr__: shortest decimal text; exponent form below 1e-04
ReprMag(x) ==
    IF x.whole = 0 /\ x.frac > 0 /\ x.frac < Pow10(FracDigits - 4)
    THEN LET ds   == NatToDigits(x.frac)
             mant == StripTrailingZeros(ds)
             ex   == FracDigits - (Len(ds) - 1)
         IN  <<Head(mant)>>
             \o (IF Len(mant) > 1 THEN <<".">> \o Tail(mant) ELSE <<>>)
             \o <<"e", "-">> \o ZeroPad(NatToDigits(ex), 2)
    ELSE NatToDigits(x.whole) \o <<".">>
         \o StripTrailingZeros(ZeroPad(NatToDigits(x.frac), FracDigits))

Repr(x) ==
    IF x.kind = "nan" THEN <<"n", "a", "n">>
    ELSE (IF x.neg THEN <<"-">> ELSE <<>>) \o ReprMag(x)

\* the value mantissa * 10^(-shift) as a float, None when the model cannot hold it
FromScaled(neg, intDigits, fracDigits, ex) ==
    IF ex = 0
    THEN IF Len(fracDigits) <= FracDigits /\ Len(intDigits) <= 4
         THEN Fin(neg, DigitsToNat(intDigits),
                  DigitsToNat(fracDigits) * Pow10(FracDigits - Len(fracDigits)))
         ELSE None
    ELSE LET sh == FracDigits - Len(fracDigits) + ex
         IN  IF sh >= 0 /\ sh <= FracDigits /\ Len(intDigits \o fracDigits) + sh <= 9
             THEN LET total == DigitsToNat(intDigits \o fracDigits) * Pow10(sh)
                  IN  Fin(neg, total \div Scale, total % Scale)
             ELSE None

\* the unsigned part of a decimal literal: digits [. digits] [e [+-] digits]
ParseUnsigned(neg, t) ==
    LET ePos  == IndexOf(t, "e")
        mant  == IF ePos = 0 THEN t ELSE SubSeq(t, 1, ePos - 1)
        exTxt == IF ePos = 0 THEN <<>> ELSE SubSeq(t, ePos + 1, Len(t))
        exNeg == exTxt /= <<>> /\ Head(exTxt) = "-"
        exDig == IF exTxt /= <<>> /\ Head(exTxt) \in {"-", "+"} THEN Tail(exTxt) ELSE exTxt
        dot   == IndexOf(mant, ".")
        ip    == IF dot = 0 THEN mant ELSE SubSeq(mant, 1, dot - 1)
        fp    == IF dot = 0 THEN <<>> ELSE SubSeq(mant, dot + 1, Len(mant))
    IN  IF /\ AllDigits(ip) /\ AllDigits(fp) /\ Len(ip) + Len(fp) > 0
           /\ (ePos = 0 \/ (exDig /= <<>> /\ AllDigits(exDig)))
        THEN FromScaled(neg, ip, fp,
                        IF ePos = 0 THEN 0
                        ELSE IF exNeg THEN 0 - DigitsToNat(exDig) ELSE DigitsToNat(exDig))
        ELSE None

\* float() on a stripped, lower-cased text
ParseStripped(lt) ==
    IF lt = <<>> THEN None
    ELSE IF lt \in {<<"n", "a", "n">>, <<"+", "n", "a", "n">>, <<"-", "n", "a", "n">>} THEN NaN
    ELSE ParseUnsigned(Head(lt) = "-", IF Head(lt) \in {"-", "+"} THEN Tail(lt) ELSE lt)

\* float(text): None stands for the ValueError
ParseFloat(text) == ParseStripped(Lower(Strip(text)))

\* normalize_float on a text cell: strip, drop a leading byte-order mark, float()
RECURSIVE LStripBom(_)
LStripBom(t) == IF t /= <<>> /\ Head(t) = "BOM" THEN LStripBom(Tail(t)) ELSE t

normalize_float(value) ==
    LET text == LStripBom(Strip(value))
    IN  IF text = <<>> THEN None ELSE ParseFloat(text)

\* ------------------------------------------------------ CoordinateCodec

\* round(): to the nearest integer, ties to the even one
RoundHalfEven(n, d) ==
    LET q == n \div d
        r == n % d
    IN  IF 2 * r > d THEN q + 1
        ELSE IF 2 * r < d THEN q
        ELSE IF q % 2 = 0 THEN q ELSE q + 1

RECURSIVE Gcd(_, _)
Gcd(a, b) == IF b = 0 THEN a ELSE Gcd(b, a % b)

\* denominator of the seconds rational
SecondsDen == 10000

\* to_rational with the seconds left at zero
to_rational_NoSeconds(dec) ==
    IF dec = None THEN <<<<0, 1>>, <<0, 1>>, <<0, 1>>>>
    ELSE <<<<FloatAbs(dec).whole, 1>>, <<(3 * FloatAbs(dec).frac) \div (Scale \div 20), 1>>,
           <<0, SecondsDen>>>>

\* to_rational: |dec| as (degrees, minutes, seconds) rationals.
\* minutes_full = frac * 60 is kept as the fraction (3 * frac) / (Scale / 20);
\* its remainder times 60 * SecondsDen is the fraction (3 * rem) / 25 * (SecondsDen / 10000).
to_rational(dec) ==
    IF dec = None THEN <<<<0, 1>>, <<0, 1>>, <<0, 1>>>>
    ELSE LET a       == FloatAbs(dec)
             deg     == a.whole
             unit    == Scale \div 20
             minutes == (3 * a.frac) \div unit
             rem     == 3 * a.frac - minutes * unit
             g       == Gcd(60 * SecondsDen, unit)
             seconds == RoundHalfEven(rem * ((60 * SecondsDen) \div g), unit \div g)
         IN  <<<<deg, 1>>, <<minutes, 1>>, <<seconds, SecondsDen>>>>

\* build_gps_ifd: the hemisphere references
lat_ref(lat) == IF FloatGeqZero(lat) THEN "N" ELSE "S"

lon_ref(lon) == IF FloatGeqZero(lon) THEN "E" ELSE "W"

\* dms_to_decimal where a component with a zero denominator counts as zero
dms_to_decimal_ZeroForBadDen(dms, ref) ==
    IF \E k \in 1..3 : dms[k][2] = 0
    THEN Fin(ref \in {"S", "W"}, IF dms[1][2] = 0 THEN 0 ELSE dms[1][1] \div dms[1][2], 0)
    ELSE Fin(ref \in {"S", "W"}, dms[1][1] \div dms[1][2], 0)

\* dms_to_decimal: degrees + minutes/60 + seconds/3600, negated for S and W,
\* rounded to FracDigits places; a zero denominator is a decode failure
dms_to_decimal(dms, ref) ==
    LET dn == dms[1][1]
        dd == dms[1][2]
        mn == dms[2][1]
        md == dms[2][2]
        sn == dms[3][1]
        sd == dms[3][2]
    IN  IF dd = 0 \/ md = 0 \/ sd = 0 THEN None
        ELSE LET whole == dn \div dd
                 den   == dd * md * sd
                 num   == (dn % dd) * md * sd * 3600 + mn * dd * sd * 60 + sn * dd * md
                 k     == Scale \div 400
                 g     == Gcd(k, den)
                 f     == RoundHalfEven(num * (k \div g), 9 * (den \div g))
             IN  Fin(ref \in {"S", "W"}, whole + (f \div Scale), f % Scale)

\* ----------------------------------------------------- OrientationCodec

\* an orientation triple <<phi, alpha, kappa>>, each a float or None
NoOrientation == <<None, None, None>>

JsonKeys == <<<<"p", "h", "i">>, <<"a", "l", "p", "h", "a">>, <<"k", "a", "p", "p", "a">>>>

Quoted(t) == <<"\"">> \o t \o <<"\"">>

\* json.dumps of a float: its repr, NaN for a NaN
JsonFloat(x) == IF x.kind = "nan" THEN <<"N", "a", "N">> ELSE Repr(x)

\* the members "key":value of the fields i..3 that are present, comma-separated
RECURSIVE JsonMembers(_, _, _)
JsonMembers(o, i, first) ==
    IF i > 3 THEN <<>>
    ELSE IF o[i] = None THEN JsonMembers(o, i + 1, first)
    ELSE (IF first THEN <<>> ELSE <<",">>)
         \o Quoted(JsonKeys[i]) \o <<":">> \o JsonFloat(o[i])
         \o JsonMembers(o, i + 1, FALSE)

\* format_orientation_json that emits an empty object when no field is present
format_orientation_json_EmptyObject(phi, alpha, kappa) ==
    <<"{">> \o JsonMembers(<<phi, alpha, kappa>>, 1, TRUE) \o <<"}">>

\* format_orientation_json: compact JSON of the present fields, NoText when there is none
format_orientation_json(phi, alpha, kappa) ==
    IF phi = None /\ alpha = None /\ kappa = None THEN NoText
    ELSE <<"{">> \o JsonMembers(<<phi, alpha, kappa>>, 1, TRUE) \o <<"}">>

AsciiPrefix == <<"A", "S", "C", "I", "I", "NUL", "NUL", "NUL">>

UnicodePrefix == <<"U", "N", "I", "C", "O", "D", "E", "NUL">>

\* encode_user_comment: piexif's UserComment.dump, the 8-byte ASCII marker and the text
encode_user_comment(text) == AsciiPrefix \o text

\* decode_user_comment that leaves the 8-byte marker in the text
decode_user_comment_KeepMarker(raw) == IF raw = None THEN NoText ELSE raw

\* decode_user_comment (extract_gps.py): drop a recognised 8-byte marker, decode the rest
decode_user_comment(raw) ==
    IF raw = None THEN NoText
    ELSE IF Len(raw) >= 8 /\ SubSeq(raw, 1, 8) \in {AsciiPrefix, UnicodePrefix}
         THEN SubSeq(raw, 9, Len(raw))
         ELSE raw

\* a JSON number literal as a float, None when it is not one
ParseJsonNumber(t) ==
    LET neg  == t /= <<>> /\ Head(t) = "-"
        body == IF neg THEN Tail(t) ELSE t
        ePos == IndexOf(body, "e")
        mant == IF ePos = 0 THEN body ELSE SubSeq(body, 1, ePos - 1)
        dot  == IndexOf(mant, ".")
        ip   == IF dot = 0 THEN mant ELSE SubSeq(mant, 1, dot - 1)
    IN  IF t = <<"N", "a", "N">> THEN NaN
        ELSE IF /\ ip /= <<>>
                /\ (Len(ip) > 1 => Head(ip) /= "0")
                /\ (dot /= 0 => dot < Len(mant))
             THEN ParseUnsigned(neg, body)
             ELSE None

\* a JSON value as Python's float(v) sees it: a number, a string holding one, or null
JsonValueToFloat(t) ==
    IF Len(t) >= 2 /\ Head(t) = "\"" /\ t[Len(t)] = "\""
    THEN ParseFloat(SubSeq(t, 2, Len(t) - 1))
    ELSE ParseJsonNumber(t)

IsJsonValue(t) ==
    \/ t = <<"n", "u", "l", "l">>
    \/ JsonValueToFloat(t) /= None
    \/ (Len(t) >= 2 /\ Head(t) = "\"" /\ t[Len(t)] = "\"")

IsJsonMember(m) ==
    LET c == IndexOf(m, ":")
    IN  /\ c > 3
        /\ m[1] = "\""
        /\ m[c - 1] = "\""
        /\ IsJsonValue(SubSeq(m, c + 1, Len(m)))

MemberKey(m) == SubSeq(m, 2, IndexOf(m, ":") - 2)

MemberValue(m) == SubSeq(m, IndexOf(m, ":") + 1, Len(m))

\* json.loads of a flat object: its members, or <<"fail">> when the text is not one
JsonLoads(text) ==
    IF Len(text) < 2 \/ Head(text) /= "{" \/ text[Len(text)] /= "}" THEN <<"fail">>
    ELSE LET inner == SubSeq(text, 2, Len(text) - 1)
             ms    == IF inner = <<>> THEN <<>> ELSE SplitOn(inner, ",")
         IN  IF \A i \in 1..Len(ms) : IsJsonMember(ms[i]) THEN <<"ok", ms>> ELSE <<"fail">>

\* data.get(key) followed by to_float: the last member of that key, None when absent
JsonGetFloat(ms, key) ==
    LET hits == {i \in 1..Len(ms) : MemberKey(ms[i]) = key}
    IN  IF hits = {} THEN None
        ELSE JsonValueToFloat(MemberValue(ms[CHOOSE i \in hits : \A j \in hits : j <= i]))

\* parse_orientation_comment lines 151-159: the three fields of the loaded data
OrientationOfJson(data) ==
    IF data[1] = "fail" THEN NoOrientation
    ELSE <<JsonGetFloat(data[2], JsonKeys[1]),
           JsonGetFloat(data[2], JsonKeys[2]),
           JsonGetFloat(data[2], JsonKeys[3])>>

\* parse_orientation_comment
parse_orientation_comment(text) ==
    IF text = NoText \/ text = <<>> THEN NoOrientation
    ELSE OrientationOfJson(JsonLoads(text))

XmpTags == <<"Phi", "Alpha", "Kappa">>

\* str(float) inside the f-string of build_xmp_packet
StrFloat(x) == Repr(x)

RECURSIVE XmpElements(_, _)
XmpElements(o, i) ==
    IF i > 3 THEN <<>>
    ELSE (IF o[i] = None THEN <<>> ELSE <<[tag |-> XmpTags[i], text |-> StrFloat(o[i])]>>)
         \o XmpElements(o, i + 1)

\* build_xmp_packet: the sgco elements of the packet, None when all three are absent
build_xmp_packet(phi, alpha, kappa) ==
    IF phi = None /\ alpha = None /\ kappa = None THEN None
    ELSE [kind |-> "xmp", elems |-> XmpElements(<<phi, alpha, kappa>>, 1)]

\* the pattern -?\d+(?:\.\d+)? of parse_xmp_sidecar, matched against a whole element text
MatchesXmpNumber(t) ==
    LET body == IF t /= <<>> /\ Head(t) = "-" THEN Tail(t) ELSE t
        dot  == IndexOf(body, ".")
        ip   == IF dot = 0 THEN body ELSE SubSeq(body, 1, dot - 1)
        fp   == IF dot = 0 THEN <<>> ELSE SubSeq(body, dot + 1, Len(body))
    IN  /\ ip /= <<>>
        /\ AllDigits(ip)
        /\ AllDigits(fp)
        /\ (dot /= 0 => fp /= <<>>)

\* find(tag) of parse_xmp_sidecar: the first element of that tag the pattern matches
XmpFind(elems, tag) ==
    LET hits == {i \in 1..Len(elems) : elems[i].tag = tag /\ MatchesXmpNumber(elems[i].text)}
    IN  IF hits = {} THEN None
        ELSE ParseFloat(elems[CHOOSE i \in hits : \A j \in hits : i <= j].text)

\* parse_xmp_sidecar: sidecar is None when the file <image>.xmp does not exist
parse_xmp_sidecar(sidecar) ==
    IF sidecar = None THEN NoOrientation
    ELSE <<XmpFind(sidecar.elems, XmpTags[1]),
           XmpFind(sidecar.elems, XmpTags[2]),
           XmpFind(sidecar.elems, XmpTags[3])>>

\* extract_orientation that fills the fields the sidecar lacks from the comment
SidecarFirst_Merged(x, comment) ==
    LET c == IF comment = None THEN NoOrientation
             ELSE parse_orientation_comment(decode_user_comment(comment))
    IN  [i \in 1..3 |-> IF x[i] /= None THEN x[i] ELSE c[i]]

\* extract_orientation(exif, img_path): comment is the raw UserComment of exif, None
\* when exif has none; sidecar is the file beside img_path
SidecarFirst(x, comment) ==
    IF \E i \in 1..3 : x[i] /= None THEN x
    ELSE IF comment = None THEN NoOrientation
    ELSE parse_orientation_comment(decode_user_comment(comment))

extract_orientation(comment, sidecar) == SidecarFirst(parse_xmp_sidecar(sidecar), comment)

\* ----------------------------------------------------------- CsvIngester

\* a CSV file is a sequence of rows as csv.reader yields them, a row a sequence of cells

H_filename == <<"f", "i", "l", "e", "n", "a", "m", "e">>

H_image_name == <<"i", "m", "a", "g", "e", "_", "n", "a", "m", "e">>

H_latitude == <<"l", "a", "t", "i", "t", "u", "d", "e">>

H_longitude == <<"l", "o", "n", "g", "i", "t", "u", "d", "e">>

H_altitude == <<"a", "l", "t", "i", "t", "u", "d", "e">>

H_phi == <<"p", "h", "i">>

H_alpha == <<"a", "l", "p", "h", "a">>

H_kappa == <<"k", "a", "p", "p", "a">>

allowed_headers ==
    {H_filename, H_image_name, H_latitude, H_longitude, H_altitude, H_phi, H_alpha, H_kappa}

\* load_csv line 96: a row without cells, or with only blank cells
IsBlankRow(row) == row = <<>> \/ \A i \in 1..Len(row) : Strip(row[i]) = <<>>

\* load_csv lines 99-100: header name -> column (1-based), the last column of a repeated name
DetectHeader(row) ==
    LET lowered == [i \in 1..Len(row) |-> Lower(Strip(row[i]))]
        names   == {lowered[i] : i \in 1..Len(row)} \cap allowed_headers
    IN  [n \in names |-> CHOOSE i \in 1..Len(row) :
                            /\ lowered[i] = n
                            /\ \A j \in 1..Len(row) : lowered[j] = n => j <= i]

\* the header test without the image_name alias
LooksLikeHeader_FilenameOnly(detected) ==
    {H_filename, H_latitude, H_longitude} \subseteq DOMAIN detected

\* load_csv line 102: the detected names cover a name field, latitude and longitude
LooksLikeHeader(detected) ==
    \/ {H_filename, H_latitude, H_longitude} \subseteq DOMAIN detected
    \/ {H_image_name, H_latitude, H_longitude} \subseteq DOMAIN detected

\* pick(name, pos): the headed column when the header names it and the row has it,
\* else the positional column (pos is 0-based as in the source)
pick(header_map, row, name, pos) ==
    IF DOMAIN header_map /= {} /\ name \in DOMAIN header_map /\ header_map[name] <= Len(row)
    THEN Strip(row[header_map[name]])
    ELSE IF Len(row) > pos THEN Strip(row[pos + 1]) ELSE <<>>

\* load_csv lines 114-133: the record appended for a data row
CsvRow(header_map, row, idx) ==
    [ row        |-> idx,
      image_name |-> IF pick(header_map, row, H_filename, 0) /= <<>>
                     THEN pick(header_map, row, H_filename, 0)
                     ELSE pick(header_map, row, H_image_name, 0),
      latitude   |-> pick(header_map, row, H_latitude, 1),
      longitude  |-> pick(header_map, row, H_longitude, 2),
      altitude   |-> pick(header_map, row, H_altitude, 3),
      phi        |-> pick(header_map, row, H_phi, 4),
      alpha      |-> pick(header_map, row, H_alpha, 5),
      kappa      |-> pick(header_map, row, H_kappa, 6) ]

\* the loop of load_csv from row idx on; header_map is None until the first non-blank row
RECURSIVE load_csv_from(_, _, _)
load_csv_from(file, idx, header_map) ==
    IF idx > Len(file) THEN <<>>
    ELSE IF IsBlankRow(file[idx]) THEN load_csv_from(file, idx + 1, header_map)
    ELSE IF header_map = None /\ LooksLikeHeader(DetectHeader(file[idx]))
         THEN load_csv_from(file, idx + 1, DetectHeader(file[idx]))
    ELSE LET hm == IF header_map = None THEN <<>> ELSE header_map
         IN  <<CsvRow(hm, file[idx], idx)>> \o load_csv_from(file, idx + 1, hm)

\* load_csv without the header detection: every non-blank row is a data row
load_csv_NoHeader(file) == load_csv_from(file, 1, <<>>)

load_csv(file) == load_csv_from(file, 1, None)

\* ----------------------------------------------------------- image files

\* A JPEG on disk: writable is os.access(path, W_OK); loadable says whether its
\* embedded metadata parses; gps, comment and other are the GPS block, the raw
\* UserComment and the remaining tags it holds.  A sidecar is None or a packet.

EmptyExif == [gps |-> None, comment |-> None, other |-> "none"]

\* build_gps_ifd: references, DMS rationals and, when given, the altitude rational
build_gps_ifd(lat, lon, alt) ==
    [ lat_ref |-> lat_ref(lat),
      lat     |-> to_rational(lat),
      lon_ref |-> lon_ref(lon),
      lon     |-> to_rational(lon),
      alt     |-> IF alt = None THEN None
                  ELSE [ num |-> alt.whole * 100 + (alt.frac \div (Scale \div 100)),
                         den |-> 100,
                         ref |-> IF FloatGeqZero(alt) THEN 0 ELSE 1 ] ]

\* apply_orientation: overwrite the UserComment when there is an orientation payload
apply_orientation(exif_dict, phi, alpha, kappa) ==
    LET comment == format_orientation_json(phi, alpha, kappa)
    IN  IF comment = NoText THEN exif_dict
        ELSE [exif_dict EXCEPT !.comment = encode_user_comment(comment)]

\* write_gps_to_image line 246-248: the loaded metadata, empty when loading fails
LoadExif(img) ==
    IF img.loadable
    THEN [gps |-> img.gps, comment |-> img.comment, other |-> img.other]
    ELSE EmptyExif

\* the commit where a stored altitude outlives a write that brings none
CommitWrite_KeepAltitude(img, sidecar, exif_dict, packet, insertOk, sidecarOk) ==
    IF ~insertOk
    THEN [success |-> FALSE, err |-> "piexif insert failed", image |-> img, sidecar |-> sidecar]
    ELSE [ success |-> TRUE,
           err     |-> "",
           image   |-> [img EXCEPT !.loadable = TRUE,
                                   !.gps = IF exif_dict.gps.alt = None /\ img.loadable /\ img.gps /= None
                                           THEN [exif_dict.gps EXCEPT !.alt = img.gps.alt]
                                           ELSE exif_dict.gps,
                                   !.comment = exif_dict.comment,
                                   !.other = exif_dict.other],
           sidecar |-> IF packet /= None /\ sidecarOk THEN packet ELSE sidecar ]

\* write_gps_to_image lines 254-267: insert the dumped metadata, then write the sidecar;
\* a failed sidecar write is passed over
CommitWrite(img, sidecar, exif_dict, packet, insertOk, sidecarOk) ==
    IF ~insertOk
    THEN [success |-> FALSE, err |-> "piexif insert failed", image |-> img, sidecar |-> sidecar]
    ELSE [ success |-> TRUE,
           err     |-> "",
           image   |-> [img EXCEPT !.loadable = TRUE,
                                   !.gps = exif_dict.gps,
                                   !.comment = exif_dict.comment,
                                   !.other = exif_dict.other],
           sidecar |-> IF packet /= None /\ sidecarOk THEN packet ELSE sidecar ]

\* write_gps_to_image: insertOk and sidecarOk say whether piexif's dump/insert and the
\* sidecar's write_text go through; the result carries the files as they are left.
\* A NaN altitude makes build_gps_ifd raise (int(nan)), which fails the write.
write_gps_to_image(img, sidecar, lat, lon, alt, orientation, insertOk, sidecarOk) ==
    IF alt /= None /\ ~IsFin(alt)
    THEN [success |-> FALSE, err |-> "piexif insert failed", image |-> img, sidecar |-> sidecar]
    ELSE CommitWrite(img, sidecar,
                     apply_orientation([LoadExif(img) EXCEPT !.gps = build_gps_ifd(lat, lon, alt)],
                                       orientation[1], orientation[2], orientation[3]),
                     build_xmp_packet(orientation[1], orientation[2], orientation[3]),
                     insertOk, sidecarOk)

\* ------------------------------------------------------------ BatchWriter

RECURSIVE LastIndexOfFrom(_, _, _)
LastIndexOfFrom(t, c, i) ==
    IF i = 0 THEN 0 ELSE IF t[i] = c THEN i ELSE LastIndexOfFrom(t, c, i - 1)

\* Path.suffix
Suffix(name) ==
    LET i == LastIndexOfFrom(name, ".", Len(name))
    IN  IF i <= 1 \/ i = Len(name) THEN <<>> ELSE SubSeq(name, i, Len(name))

JpegSuffixes == {<<".", "j", "p", "g">>, <<".", "j", "p", "e", "g">>}

\* iter_images: the files of the folder whose suffix is .jpg or .jpeg
iter_images(files) == {n \in DOMAIN files : files[n] /= None /\ Lower(Suffix(n)) \in JpegSuffixes}

\* main line 303: the maps from lower-cased name to path (one of the paths of that name)
ImageMaps(files) ==
    LET paths == iter_images(files)
        keys  == {Lower(n) : n \in paths}
    IN  {m \in [keys -> paths] : \A k \in keys : Lower(m[k]) = k}

\* the latitude check with the bounds excluded
LatInRange_Strict(lat) ==
    /\ FloatLeq(Fin(TRUE, 90, 0), lat) /\ FloatLeq(lat, Fin(FALSE, 90, 0))
    /\ lat \notin {Fin(TRUE, 90, 0), Fin(FALSE, 90, 0)}

\* main line 356
LatInRange(lat) == FloatLeq(Fin(TRUE, 90, 0), lat) /\ FloatLeq(lat, Fin(FALSE, 90, 0))

\* main line 361
LonInRange(lon) == FloatLeq(Fin(TRUE, 180, 0), lon) /\ FloatLeq(lon, Fin(FALSE, 180, 0))

\* main lines 338-344: the parsed cells of a row
ParsedRow(row) ==
    [ lat   |-> normalize_float(row.latitude),
      lon   |-> normalize_float(row.longitude),
      alt   |-> IF row.altitude /= <<>> THEN normalize_float(row.altitude) ELSE None,
      phi   |-> IF row.phi /= <<>> THEN normalize_float(row.phi) ELSE None,
      alpha |-> IF row.alpha /= <<>> THEN normalize_float(row.alpha) ELSE None,
      kappa |-> IF row.kappa /= <<>> THEN normalize_float(row.kappa) ELSE None ]

\* no warning for an orientation cell that does not parse
orientation_warnings_Silent(row, p) == <<>>

\* main lines 366-372
orientation_warnings(row, p) ==
    (IF row.phi /= <<>> /\ p.phi = None THEN <<"Invalid phi">> ELSE <<>>)
    \o (IF row.alpha /= <<>> /\ p.alpha = None THEN <<"Invalid alpha">> ELSE <<>>)
    \o (IF row.kappa /= <<>> /\ p.kappa = None THEN <<"Invalid kappa">> ELSE <<>>)

\* "; ".join(warnings)
RECURSIVE JoinWarnings(_)
JoinWarnings(w) ==
    IF Len(w) <= 1 THEN w ELSE <<Head(w), "; ">> \o JoinWarnings(Tail(w))

Skip(row, reason, logged, logReason) ==
    [kind |-> "skip", error |-> reason, logged |-> logged, logReason |-> logReason]

\* main lines 321-390: the checks of one row in the order of the code; the outcome is
\* the first failing check's error (and log entry, when the code writes one) or "write"
RowChecksOn(row, name_raw, p, imap, files) ==
    LET name == Lower(name_raw)
    IN  IF name = <<>> THEN Skip(row, <<"Missing image name">>, FALSE, <<>>)
        ELSE IF row.latitude = <<>> THEN Skip(row, <<"Invalid latitude">>, FALSE, <<>>)
        ELSE IF row.longitude = <<>> THEN Skip(row, <<"Invalid longitude">>, FALSE, <<>>)
        ELSE IF p.lat = None THEN Skip(row, <<"Invalid latitude">>, TRUE, <<"Invalid latitude">>)
        ELSE IF p.lon = None THEN Skip(row, <<"Invalid longitude">>, TRUE, <<"Invalid longitude">>)
        ELSE IF ~LatInRange(p.lat)
             THEN Skip(row, <<"Latitude out of range">>, TRUE, <<"Latitude out of range">>)
        ELSE IF ~LonInRange(p.lon)
             THEN Skip(row, <<"Longitude out of range">>, TRUE, <<"Longitude out of range">>)
        ELSE IF name \notin DOMAIN imap
             THEN Skip(row, <<"Image not found for ">> \o name_raw, TRUE, <<"Image not found">>)
        ELSE IF ~files[imap[name]].writable
             THEN Skip(row, <<"Read-only file skipped: ">> \o imap[name], TRUE, <<"Read-only file">>)
        ELSE [kind |-> "write", path |-> imap[name]]

\* the checks with the image looked up before the coordinates are examined
RowChecks_ImageFirst(row, imap, files) ==
    IF Strip(row.image_name) /= <<>> /\ Lower(Strip(row.image_name)) \notin DOMAIN imap
    THEN Skip(row, <<"Image not found for ">> \o Strip(row.image_name), TRUE, <<"Image not found">>)
    ELSE RowChecksOn(row, Strip(row.image_name), ParsedRow(row), imap, files)

\* the checks without the last one: a file without write permission is written
RowChecks_WriteReadOnly(row, imap, files) ==
    LET c == RowChecksOn(row, Strip(row.image_name), ParsedRow(row), imap, files)
    IN  IF c.kind = "skip" /\ c.logReason = <<"Read-only file">>
        THEN [kind |-> "write", path |-> imap[Lower(Strip(row.image_name))]]
        ELSE c

RowChecks(row, imap, files) == RowChecksOn(row, Strip(row.image_name), ParsedRow(row), imap, files)

\* ---------------------------------------------------------- MetadataReader

\* extract_gps_info where one value that does not decode loses the three of them
extract_gps_info_AllOrNothing(gps) ==
    IF gps = None THEN <<None, None, None>>
    ELSE IF \/ dms_to_decimal(gps.lat, gps.lat_ref) = None
            \/ dms_to_decimal(gps.lon, gps.lon_ref) = None
            \/ gps.alt = None
            \/ gps.alt.den = 0
    THEN <<None, None, None>>
    ELSE <<dms_to_decimal(gps.lat, gps.lat_ref), dms_to_decimal(gps.lon, gps.lon_ref),
           Fin(FALSE, gps.alt.num \div gps.alt.den, 0)>>

\* extract_gps_info: latitude and longitude decoded when both are stored, the altitude
\* as numerator / denominator rounded to 2 places (its reference byte is not read)
extract_gps_info(gps) ==
    IF gps = None THEN <<None, None, None>>
    ELSE <<dms_to_decimal(gps.lat, gps.lat_ref),
           dms_to_decimal(gps.lon, gps.lon_ref),
           IF gps.alt = None \/ gps.alt.den = 0 THEN None
           ELSE LET c == RoundHalfEven((gps.alt.num % gps.alt.den) * 100, gps.alt.den)
                    w == (gps.alt.num \div gps.alt.den) + (c \div 100)
                IN  Fin(FALSE, w, (c % 100) * (Scale \div 100))>>

\* is_writable_image
is_writable_image(name, img) == Lower(Suffix(name)) \in JpegSuffixes /\ img.writable

\* extract_timestamp: the DateTimeOriginal / DateTime tag, when the metadata holds one
extract_timestamp(exif) ==
    IF exif.other = "cam" THEN [kind |-> "str", tag |-> "DateTimeOriginal"] ELSE None

\* extract_camera: "<Make> <Model>", when the metadata holds them
extract_camera(exif) ==
    IF exif.other = "cam" THEN [kind |-> "str", tag |-> "Make Model"] ELSE None

\* process_image lines 284-288: img.size of an opened image
ImageSize == [kind |-> "int", of |-> "img.size"]

\* process_image lines 289-294: the status of a record
ExifStatus_ByContent(writable, hasGps) ==
    IF hasGps THEN "OK" ELSE IF ~writable THEN "READ_ONLY" ELSE "NO_EXIF"

ExifStatus(writable, hasGps) ==
    IF ~writable THEN "READ_ONLY" ELSE IF hasGps THEN "OK" ELSE "NO_EXIF"

\* process_image: the record of one image file; m is <<timestamp, camera, width, height>>
ImageRecord(name, writable, g, o, m) ==
    LET hasGps == g[1] /= None /\ g[2] /= None
    IN  [ filename   |-> name,
          hasGps     |-> hasGps,
          latitude   |-> g[1],
          longitude  |-> g[2],
          altitude   |-> g[3],
          phi        |-> o[1],
          alpha      |-> o[2],
          kappa      |-> o[3],
          writable   |-> writable,
          exifStatus |-> ExifStatus(writable, hasGps),
          timestamp  |-> m[1],
          camera     |-> m[2],
          width      |-> m[3],
          height     |-> m[4] ]

\* process_image lines 263-294: img._getexif() is empty when the embedded metadata does
\* not parse
process_image(name, img, sidecar) ==
    ImageRecord(name, is_writable_image(name, img),
                extract_gps_info(LoadExif(img).gps),
                extract_orientation(LoadExif(img).comment, sidecar),
                <<extract_timestamp(LoadExif(img)), extract_camera(LoadExif(img)),
                  ImageSize, ImageSize>>)

\* process_image lines 241-261 and 295-298: the record as it is before the image is
\* opened, returned when Pillow is absent or Image.open raises
BaseRecord(name, img) ==
    ImageRecord(name, is_writable_image(name, img), <<None, None, None>>,
                <<None, None, None>>, <<None, None, None, None>>)

\* process_image as a whole, of the file f = [name, img, sidecar, opens]
process_image_of(f, pillow) ==
    IF ~pillow \/ ~f.opens THEN BaseRecord(f.name, f.img)
    ELSE process_image(f.name, f.img, f.sidecar)

\* ------------------------------------------------------------- inputs

\* longest CSV file of the model, in rows
MaxRows == 2

N_a_jpg == <<"a", ".", "j", "p", "g">>

N_B_JPG == <<"B", ".", "J", "P", "G">>

N_b_jpg == <<"b", ".", "j", "p", "g">>

N_c_png == <<"c", ".", "p", "n", "g">>

N_zz_jpg == <<"z", "z", ".", "j", "p", "g">>

FileNames == {N_a_jpg, N_B_JPG, N_c_png}

T_10 == <<"1", "0", ".", "0">>

T_20 == <<"2", "0", ".", "0">>

T_abc == <<"a", "b", "c">>

RowPool ==
    { <<N_a_jpg, T_10, T_20>>,
      <<N_b_jpg, <<"-", "3", "3", ".", "5">>, <<"1", "5", "1", ".", "2", "5">>,
        <<"-", "5", ".", "5">>, <<"1", ".", "5">>, <<>>, <<"-", "0", ".", "5">>>>,
      <<<<>>, T_10, T_20>>,
      <<N_zz_jpg, <<" ">>, T_20>>,
      <<N_a_jpg, T_abc>>,
      <<N_a_jpg, T_abc, <<"x", "y">>>>,
      <<N_a_jpg, <<"9", "1">>, <<"x", "y">>>>,
      <<N_a_jpg, <<"9", "0", ".", "0", "0", "0", "1">>, <<"1", "8", "0", ".", "0", "0", "0", "1">>>>,
      <<N_a_jpg, <<"9", "0">>, <<"-", "1", "8", "0">>, <<"x">>, <<"1", ".", "5">>, <<"b", "a", "d">>>>,
      <<N_a_jpg, <<"-", "9", "0", ".", "0">>, <<"1", "8", "0", ".", "0">>, <<>>,
        <<"0", ".", "0", "0", "0", "0", "1">>, <<"2", ".", "0">>>>,
      <<N_zz_jpg, <<"-", "9", "0">>, <<"-", "1", "8", "0", ".", "0", "0", "0", "1">>>>,
      <<N_c_png, <<"n", "a", "n">>, T_20>>,
      <<N_a_jpg, <<"-", "9", "0", ".", "0", "0", "0", "1">>, T_20>>,
      <<H_filename, H_latitude, H_longitude>>,
      <<<<>>, <<" ">>>> }

RECURSIVE SeqsUpTo(_, _)
SeqsUpTo(S, n) ==
    IF n = 0 THEN {<<>>}
    ELSE LET shorter == SeqsUpTo(S, n - 1)
         IN  shorter \cup {Append(q, x) : q \in {r \in shorter : Len(r) = n - 1}, x \in S}

CsvPool == SeqsUpTo(RowPool, MaxRows)

Img(writable, loadable, gps, comment, other) ==
    [writable |-> writable, loadable |-> loadable, gps |-> gps, comment |-> comment, other |-> other]

F_9 == Fin(FALSE, 9, 0)

F_1 == Fin(FALSE, 1, 0)

F_2 == Fin(FALSE, 2, 0)

OldGps == build_gps_ifd(Fin(FALSE, 1, 25000000), Fin(TRUE, 2, 0), Fin(FALSE, 7, 0))

OldComment == encode_user_comment(format_orientation_json(F_9, F_1, None))

PlainComment == <<"h", "i">>

\* the folders of the model: the image files and the sidecars beside them
FolderPool ==
    { [ files    |-> (N_a_jpg :> Img(TRUE, TRUE, None, None, "cam"))
                     @@ (N_B_JPG :> Img(FALSE, TRUE, None, None, "cam"))
                     @@ (N_c_png :> Img(TRUE, TRUE, None, None, "none")),
        sidecars |-> [n \in FileNames |-> None] ],
      [ files    |-> (N_a_jpg :> Img(TRUE, TRUE, OldGps, OldComment, "cam"))
                     @@ (N_B_JPG :> Img(TRUE, FALSE, None, None, "garbled"))
                     @@ (N_c_png :> None),
        sidecars |-> (N_a_jpg :> build_xmp_packet(F_2, None, None))
                     @@ (N_B_JPG :> None) @@ (N_c_png :> None) ],
      [ files    |-> (N_a_jpg :> Img(FALSE, TRUE, OldGps, OldComment, "cam"))
                     @@ (N_B_JPG :> Img(TRUE, TRUE, None, PlainComment, "none"))
                     @@ (N_c_png :> None),
        sidecars |-> (N_a_jpg :> [kind |-> "xmp", elems |-> <<[tag |-> "Phi", text |-> T_abc]>>])
                     @@ (N_B_JPG :> build_xmp_packet(None, F_1, F_2)) @@ (N_c_png :> None) ],
      [ files    |-> (N_a_jpg :> None)
                     @@ (N_B_JPG :> Img(TRUE, TRUE, OldGps, OldComment, "cam"))
                     @@ (N_c_png :> None),
        sidecars |-> [n \in FileNames |-> None] ] }

\* -------------------------------------------------------------- state

VARIABLES
    pc,         \* "start", "rows", "done": where main of write_gps.py stands
    csv,        \* the CSV file of the request
    images,     \* the files of the folder: name -> image, None when there is no such file
    sidecars,   \* name -> the sidecar <name>.xmp, None when there is none
    rows,       \* main: rows, as load_csv returned them
    image_map,  \* main: image_map
    rowIdx,     \* main: the position of the for loop in rows
    updated,    \* main: updated
    skipped,    \* main: skipped
    errors,     \* main: errors
    logs,       \* main: logs
    result,     \* the JSON result main prints, None before
    fsLog,      \* history: the file writes done, in order
    record,     \* the record of the last process_image of a scan after the batch
    codec,      \* a codec exercised on its own: the inputs, the stage and the outputs
    req,        \* the request of the run: what main finds when it checks its inputs
    scan,       \* main of extract_gps.py: its request, its position and its outputs
    util        \* a run of rename_images.py or copy_selected.py: its inputs, files and outputs

vars == <<rowIdx, pc, updated, skipped, csv, rows, image_map, images, sidecars, errors,
          logs, result, fsLog, record, codec, req, scan, util>>

CodecIdle == [task |-> "none", stage |-> "idle"]

ScanIdle == [pc |-> "idle"]

UtilIdle == [task |-> "none", pc |-> "idle"]

\* a write-back request as main finds it: folder and csv say whether the payload names
\* them, piexif whether load_piexif returns the module, folderIsDir and csvIsFile what
\* the file system says of the two paths, csvReadable whether load_csv reads the file
GoodRequest ==
    [ folder |-> TRUE, csv |-> TRUE, piexif |-> TRUE, folderIsDir |-> TRUE, csvIsFile |-> TRUE,
      csvReadable |-> TRUE ]

\* the requests with something wrong, one defect or two
BadRequests ==
    { [GoodRequest EXCEPT !.folder = FALSE],
      [GoodRequest EXCEPT !.csv = FALSE],
      [GoodRequest EXCEPT !.piexif = FALSE],
      [GoodRequest EXCEPT !.folderIsDir = FALSE],
      [GoodRequest EXCEPT !.csvIsFile = FALSE],
      [GoodRequest EXCEPT !.csvReadable = FALSE],
      [GoodRequest EXCEPT !.piexif = FALSE, !.folderIsDir = FALSE],
      [GoodRequest EXCEPT !.csv = FALSE, !.csvIsFile = FALSE] }

\* the CSV files tried with the requests of BadRequests: no row or one row
OneRowCsvPool == {<<>>} \cup {<<r>> : r \in RowPool}

\* the checks of main without the one for piexif
run_level_error_IgnorePiexif(r) ==
    IF ~r.folder \/ ~r.csv THEN "Folder and csv are required"
    ELSE IF ~r.folderIsDir THEN "Folder not found"
    ELSE IF ~r.csvIsFile THEN "CSV not found"
    ELSE IF ~r.csvReadable THEN "Failed to read CSV"
    ELSE ""

\* main lines 276-300: the error of the first run-level check that fails, "" when none does
run_level_error(r) ==
    IF ~r.folder \/ ~r.csv THEN "Folder and csv are required"
    ELSE IF ~r.piexif THEN "piexif is required for write_gps"
    ELSE IF ~r.folderIsDir THEN "Folder not found"
    ELSE IF ~r.csvIsFile THEN "CSV not found"
    ELSE IF ~r.csvReadable THEN "Failed to read CSV"
    ELSE ""

Init ==
    /\ pc = "start"
    /\ \/ req = GoodRequest /\ csv \in CsvPool
       \/ req \in BadRequests /\ csv \in OneRowCsvPool
    /\ scan = ScanIdle
    /\ util = UtilIdle
    /\ \E f \in FolderPool : images = f.files /\ sidecars = f.sidecars
    /\ rows = <<>>
    /\ image_map = <<>>
    /\ rowIdx = 1
    /\ updated = 0
    /\ skipped = 0
    /\ errors = <<>>
    /\ logs = <<>>
    /\ result = None
    /\ fsLog = <<>>
    /\ record = None
    /\ codec = CodecIdle

\* main lines 295-309: load the CSV, index the images, reset the counters
Start ==
    /\ pc = "start"
    /\ run_level_error(req) = ""
    /\ rows' = load_csv(csv)
    /\ image_map' \in ImageMaps(images)
    /\ rowIdx' = 1
    /\ updated' = 0
    /\ skipped' = 0
    /\ errors' = <<>>
    /\ logs' = <<>>
    /\ pc' = "rows"
    /\ UNCHANGED <<csv, images, sidecars, result, fsLog, record, codec, req, scan,
                   util>>

\* main lines 276-300: a run-level check fails; the result carries the error and zeros
RunLevelError ==
    /\ pc = "start"
    /\ run_level_error(req) /= ""
    /\ result' = [ error |-> run_level_error(req), processed |-> 0, updated |-> 0, skipped |-> 0,
                   errors |-> <<>> ]
    /\ pc' = "failed"
    /\ UNCHANGED <<csv, images, sidecars, rows, image_map, rowIdx, updated, skipped, errors,
                   logs, fsLog, record, codec, req, scan,
                   util>>

\* an error entry that does not carry the number of its row
ErrorEntry_Unnumbered(row, reason) == [row |-> 0, reason |-> reason]

ErrorEntry(row, reason) == [row |-> row.row, reason |-> reason]

LogEntry(row, success, reason) ==
    [row |-> row.row, image |-> Strip(row.image_name), success |-> success, reason |-> reason]

\* main lines 311-390, a row that fails a check: count it, record the reason, go on
SkipRow ==
    /\ pc = "rows"
    /\ rowIdx <= Len(rows)
    /\ \E c \in {RowChecks(rows[rowIdx], image_map, images)} :
           /\ c.kind = "skip"
           /\ skipped' = skipped + 1
           /\ errors' = Append(errors, ErrorEntry(rows[rowIdx], c.error))
           /\ logs' = IF c.logged
                      THEN Append(logs, LogEntry(rows[rowIdx], FALSE, c.logReason))
                      ELSE logs
    /\ rowIdx' = rowIdx + 1
    /\ UNCHANGED <<pc, csv, images, sidecars, rows, image_map, updated, result, fsLog, record, codec, req, scan,
                   util>>

\* the file writes of one write_gps_to_image, for the history
WriteEvents(row, path, w, packet, sidecarOk) ==
    (IF w.success THEN <<[row |-> row.row, path |-> path, what |-> "image"]>> ELSE <<>>)
    \o (IF w.success /\ packet /= None /\ sidecarOk
        THEN <<[row |-> row.row, path |-> path, what |-> "sidecar"]>> ELSE <<>>)

\* main lines 391-400, a row that passed the checks: write the image, count the outcome
WriteRow ==
    /\ pc = "rows"
    /\ rowIdx <= Len(rows)
    /\ \E c \in {RowChecks(rows[rowIdx], image_map, images)}, p \in {ParsedRow(rows[rowIdx])} :
           /\ c.kind = "write"
           /\ \E insertOk \in BOOLEAN, sidecarOk \in BOOLEAN :
                \E w \in {write_gps_to_image(images[c.path], sidecars[c.path], p.lat, p.lon, p.alt,
                                              <<p.phi, p.alpha, p.kappa>>, insertOk, sidecarOk)},
                   warn \in {orientation_warnings(rows[rowIdx], p)} :
                    /\ images' = [images EXCEPT ![c.path] = w.image]
                    /\ sidecars' = [sidecars EXCEPT ![c.path] = w.sidecar]
                    /\ fsLog' = fsLog \o WriteEvents(rows[rowIdx], c.path, w,
                                                     build_xmp_packet(p.phi, p.alpha, p.kappa),
                                                     sidecarOk)
                    /\ IF w.success
                       THEN /\ updated' = updated + 1
                            /\ logs' = Append(logs, LogEntry(rows[rowIdx], TRUE,
                                          IF warn /= <<>> THEN JoinWarnings(warn) ELSE <<"OK">>))
                            /\ UNCHANGED <<skipped, errors>>
                       ELSE /\ skipped' = skipped + 1
                            /\ errors' = Append(errors, ErrorEntry(rows[rowIdx],
                                          <<"Failed to write GPS for ">> \o c.path \o <<": ", w.err>>))
                            /\ logs' = Append(logs, LogEntry(rows[rowIdx], FALSE, <<w.err>>))
                            /\ UNCHANGED updated
    /\ rowIdx' = rowIdx + 1
    /\ UNCHANGED <<pc, csv, rows, image_map, result, record, codec, req, scan,
                   util>>

\* main lines 402-409: the result
Finish ==
    /\ pc = "rows"
    /\ rowIdx > Len(rows)
    /\ result' = [ processed |-> Len(rows), updated |-> updated, skipped |-> skipped,
                   errors |-> errors, logs |-> logs ]
    /\ pc' = "done"
    /\ UNCHANGED <<csv, images, sidecars, rows, image_map, rowIdx, updated, skipped, errors,
                   logs, fsLog, record, codec, req, scan,
                   util>>

\* a scan after the batch reads one image file of the folder: process_image
ReadImage ==
    /\ pc = "done"
    /\ record = None
    /\ \E n \in FileNames :
         /\ images[n] /= None
         /\ record' = process_image(n, images[n], sidecars[n])
    /\ UNCHANGED <<pc, csv, images, sidecars, rows, image_map, rowIdx, updated, skipped, errors,
                   logs, result, fsLog, codec, req, scan,
                   util>>

Next == Start \/ RunLevelError \/ SkipRow \/ WriteRow \/ Finish \/ ReadImage

Spec == Init /\ [][Next]_vars

\* ------------------------------------------------ the codecs on their own

\* the orientation values of the codec runs: 1.5, -0.5, 1e-05, 0.0, 12.34567891, NaN
OrientationPool ==
    {None, Fin(FALSE, 1, 50000000), Fin(TRUE, 0, 50000000), Fin(FALSE, 0, 1000),
     Fin(FALSE, 0, 0), Fin(FALSE, 12, 34567891), NaN}

\* number of fractional steps per degree in the coordinates of the codec runs
CoordGrid == 7

FracPool ==
    {(k * Scale) \div CoordGrid : k \in 0..(CoordGrid - 1)} \cup {1, 9999, Scale \div 2, Scale - 1}

\* the coordinates of magnitude at most limit degrees, on the whole degrees degs
CoordPool(degs, limit) ==
    {Fin(neg, d, f) : neg \in BOOLEAN, d \in degs, f \in FracPool} \cup
    {Fin(neg, limit, 0) : neg \in BOOLEAN}

LatPool == CoordPool({0, 33, 89}, 90)

LonPool == CoordPool({0, 179}, 180)

\* the rationals of stored (degrees, minutes, seconds) triples
RationalPool == {<<0, 1>>, <<1, 1>>, <<30, 1>>, <<15, 0>>, <<0, 0>>, <<7, 2>>}

SecondsPool == RationalPool \cup {<<123456, SecondsDen>>, <<123456, 0>>}

CodecInit ==
    /\ pc = "idle"
    /\ csv = <<>>
    /\ images = [n \in FileNames |-> None]
    /\ sidecars = [n \in FileNames |-> None]
    /\ rows = <<>>
    /\ image_map = <<>>
    /\ rowIdx = 1
    /\ updated = 0
    /\ skipped = 0
    /\ errors = <<>>
    /\ logs = <<>>
    /\ result = None
    /\ fsLog = <<>>
    /\ record = None
    /\ req = GoodRequest
    /\ scan = ScanIdle
    /\ util = UtilIdle
    /\ \/ \E phi \in OrientationPool, alpha \in OrientationPool, kappa \in OrientationPool :
            codec = [task |-> "orientation", stage |-> "input", o |-> <<phi, alpha, kappa>>]
       \/ \E lat \in LatPool, lon \in LonPool :
            codec = [task |-> "coordinate", stage |-> "input", lat |-> lat, lon |-> lon]
       \/ \E d \in RationalPool, m \in RationalPool, sec \in SecondsPool, ref \in {"N", "W"} :
            codec = [task |-> "dms", stage |-> "input", dms |-> <<d, m, sec>>, ref |-> ref]
       \/ \E dec \in {None} \cup LatPool :
            codec = [task |-> "rational", stage |-> "input", dec |-> dec]

BatchUnchanged ==
    UNCHANGED <<pc, csv, images, sidecars, rows, image_map, rowIdx, updated, skipped, errors,
                logs, result, fsLog, record, req, scan,
                   util>>

\* apply_orientation on an empty Exif block: the UserComment it stores, if any
EncodeOrientation ==
    /\ codec.task = "orientation"
    /\ codec.stage = "input"
    /\ codec' = [ task |-> "orientation", stage |-> "encoded", o |-> codec.o,
                  comment |-> apply_orientation(EmptyExif, codec.o[1], codec.o[2], codec.o[3]).comment ]
    /\ BatchUnchanged

\* extract_orientation without a sidecar: decode_user_comment, then parse_orientation_comment
DecodeOrientation ==
    /\ codec.task = "orientation"
    /\ codec.stage = "encoded"
    /\ codec' = [ task |-> "orientation", stage |-> "decoded", o |-> codec.o,
                  comment |-> codec.comment,
                  decoded |-> extract_orientation(codec.comment, None) ]
    /\ BatchUnchanged

\* build_gps_ifd: the references and rationals of a coordinate pair
EncodeCoordinate ==
    /\ codec.task = "coordinate"
    /\ codec.stage = "input"
    /\ codec' = [ task |-> "coordinate", stage |-> "encoded", lat |-> codec.lat, lon |-> codec.lon,
                  gps |-> build_gps_ifd(codec.lat, codec.lon, None) ]
    /\ BatchUnchanged

\* extract_gps_info on the stored block
DecodeCoordinate ==
    /\ codec.task = "coordinate"
    /\ codec.stage = "encoded"
    /\ codec' = [ task |-> "coordinate", stage |-> "decoded", lat |-> codec.lat, lon |-> codec.lon,
                  gps |-> codec.gps,
                  decoded |-> extract_gps_info(codec.gps) ]
    /\ BatchUnchanged

\* dms_to_decimal on a stored triple
DecodeDms ==
    /\ codec.task = "dms"
    /\ codec.stage = "input"
    /\ codec' = [ task |-> "dms", stage |-> "decoded", dms |-> codec.dms, ref |-> codec.ref,
                  decoded |-> dms_to_decimal(codec.dms, codec.ref) ]
    /\ BatchUnchanged

\* to_rational on a value, None included
ToRational ==
    /\ codec.task = "rational"
    /\ codec.stage = "input"
    /\ codec' = [ task |-> "rational", stage |-> "encoded", dec |-> codec.dec,
                  dms |-> to_rational(codec.dec) ]
    /\ BatchUnchanged

CodecNext ==
    \/ EncodeOrientation
    \/ DecodeOrientation
    \/ EncodeCoordinate
    \/ DecodeCoordinate
    \/ DecodeDms
    \/ ToRational

SpecCodec == CodecInit /\ [][CodecNext]_vars

\* ------------------------------------------------ the ingester on its own

\* longest CSV file of the ingester runs, in rows
MaxIngestRows == 3

T_5_5 == <<"5", ".", "5">>

T_1_5 == <<"1", ".", "5">>

T_2_5 == <<"2", ".", "5">>

T_3_5 == <<"3", ".", "5">>

T_7_5 == <<"7", ".", "5">>

T_8_5 == <<"8", ".", "5">>

\* the rows of the ingester runs: three headers (plain; alias and reordered; upper case,
\* padded and with kappa before altitude), a row of header names without a name field,
\* data rows in those orders, a row of nine columns, and two blank rows
IngestRowPool ==
    { <<H_filename, H_latitude, H_longitude>>,
      <<H_latitude, H_longitude, H_image_name>>,
      <<<<" ", "F", "i", "l", "e", "n", "a", "m", "e", " ">>, <<"L", "A", "T", "I", "T", "U", "D", "E">>,
        H_longitude, H_kappa, H_altitude>>,
      <<H_latitude, H_longitude>>,
      <<N_a_jpg, T_10, T_20>>,
      <<T_10, T_20, N_a_jpg>>,
      <<N_a_jpg, T_10, T_20, T_3_5, T_5_5>>,
      <<N_a_jpg, T_10, T_20, T_5_5, T_1_5, T_2_5, T_3_5, T_7_5, T_8_5>>,
      <<>>,
      <<<<>>, <<" ">>>> }

IngestPool == SeqsUpTo(IngestRowPool, MaxIngestRows)

\* the schema variants a request of the ingester can name
SchemaVariants == {"modern", "legacy"}

CsvInit ==
    /\ pc = "csv"
    /\ csv \in IngestPool
    /\ req \in {[variant |-> v] : v \in SchemaVariants}
    /\ scan = ScanIdle
    /\ util = UtilIdle
    /\ images = [n \in FileNames |-> None]
    /\ sidecars = [n \in FileNames |-> None]
    /\ rows = <<>>
    /\ image_map = <<>>
    /\ rowIdx = 1
    /\ updated = 0
    /\ skipped = 0
    /\ errors = <<>>
    /\ logs = <<>>
    /\ result = None
    /\ fsLog = <<>>
    /\ record = None
    /\ codec = CodecIdle

\* load_csv on the file; the function takes the path alone, no schema variant
Ingest ==
    /\ pc = "csv"
    /\ rows' = load_csv(csv)
    /\ pc' = "loaded"
    /\ UNCHANGED <<csv, images, sidecars, image_map, rowIdx, updated, skipped, errors, logs,
                   result, fsLog, record, codec, req, scan,
                   util>>

CsvNext == Ingest

SpecCsv == CsvInit /\ [][CsvNext]_vars

\* ------------------------------------------------------------ folder scan

\* scan_folder: progress_every
ProgressEvery == 10

\* longest folder of arbitrary files, in files
MaxScanFiles == 2

\* longest folder of like files, in files
MaxLongFolder == 11

SUPPORTED_EXT ==
    { <<".", "j", "p", "g">>, <<".", "j", "p", "e", "g">>, <<".", "p", "n", "g">>,
      <<".", "t", "i", "f">>, <<".", "t", "i", "f", "f">>, <<".", "b", "m", "p">>,
      <<".", "w", "e", "b", "p">>, <<".", "h", "e", "i", "c">>, <<".", "d", "n", "g">>,
      <<".", "r", "a", "w">>, <<".", "j", "f", "i", "f">> }

\* code points in increasing order, of the characters lower-cased file names are made of
CharOrder ==
    <<".">> \o DigitChars \o
    << "a", "b", "c", "d", "e", "f", "g", "h", "i", "j", "k", "l", "m",
       "n", "o", "p", "q", "r", "s", "t", "u", "v", "w", "x", "y", "z" >>

CharRank(c) == CHOOSE i \in 1..Len(CharOrder) : CharOrder[i] = c

\* a <= b as Python compares strings
RECURSIVE TextLeq(_, _)
TextLeq(a, b) ==
    IF a = <<>> THEN TRUE
    ELSE IF b = <<>> THEN FALSE
    ELSE IF a[1] = b[1] THEN TextLeq(Tail(a), Tail(b))
    ELSE CharRank(a[1]) < CharRank(b[1])

\* main line 398: sorted(images, key = lower-cased filename), which is stable
RECURSIVE SortedByName(_)
SortedByName(s) ==
    IF s = <<>> THEN <<>>
    ELSE LET rest == SortedByName(SubSeq(s, 1, Len(s) - 1))
             x    == s[Len(s)]
             k    == Cardinality({i \in 1..Len(rest) :
                                      TextLeq(Lower(rest[i].filename), Lower(x.filename))})
         IN  SubSeq(rest, 1, k) \o <<x>> \o SubSeq(rest, k + 1, Len(rest))

\* fmt_num: "" for an absent value, else the value with 6 decimal places
fmt_num(value) ==
    IF value = None THEN <<>>
    ELSE IF value = NaN THEN <<"n", "a", "n">>
    ELSE LET unit == Pow10(FracDigits - 6)
             r    == RoundHalfEven(value.frac, unit)
             w    == value.whole + (r \div Pow10(6))
         IN  (IF value.neg THEN <<"-">> ELSE <<>>) \o NatToDigits(w) \o <<".">>
                 \o ZeroPad(NatToDigits(r % Pow10(6)), 6)

ExportHeader ==
    << H_filename, H_latitude, H_longitude, <<"a", "l", "t", "i", "t", "u", "d", "e">>,
       <<"p", "h", "i">>, <<"a", "l", "p", "h", "a">>, <<"k", "a", "p", "p", "a">> >>

\* main lines 403-413: the exported row of one record
ExportRow(img) ==
    << img.filename, fmt_num(img.latitude), fmt_num(img.longitude), fmt_num(img.altitude),
       fmt_num(img.phi), fmt_num(img.alpha), fmt_num(img.kappa) >>

\* main lines 398-413: the exported file
ExportCsv(imgs) ==
    LET ordered == SortedByName(imgs)
    IN  <<ExportHeader>> \o [i \in 1..Len(ordered) |-> ExportRow(ordered[i])]

\* iter_image_paths: the files of the folder with a supported extension, in glob order
iter_image_paths(folder) ==
    LET Supported(f) == Lower(Suffix(f.name)) \in SUPPORTED_EXT
    IN  SelectSeq(folder, Supported)

\* emit_progress
emit_progress(done, total) ==
    [ type      |-> "progress",
      processed |-> done,
      total     |-> total,
      percent   |-> IF total = 0 THEN 0
                    ELSE LET p == (done * 100) \div total
                         IN  IF p > 100 THEN 100 ELSE p,
      status    |-> "Scanning" ]

\* compute_stats
compute_stats(imgs) ==
    LET total    == Len(imgs)
        with_gps == Cardinality({i \in 1..Len(imgs) : imgs[i].hasGps})
    IN  [ total      |-> total,
          withGps    |-> with_gps,
          missingGps |-> total - with_gps,
          writable   |-> Cardinality({i \in 1..Len(imgs) : imgs[i].writable}) ]

\* main lines 373-384: the checks before the scan, "" when they pass
scan_error(r) ==
    IF ~r.folder THEN "Folder is required"
    ELSE IF ~r.folderIsDir THEN "Folder not found"
    ELSE IF ~r.pillow THEN "Pillow not installed"
    ELSE ""

\* main lines 390-433: what main prints after the scan, and the file it writes
scan_output(r, imgs) ==
    LET stats == compute_stats(imgs)
    IN  IF r.mode = "scan"
        THEN [ result   |-> [type |-> "complete", success |-> TRUE, images |-> imgs,
                             stats |-> stats],
               exported |-> None ]
        ELSE IF r.exportCsv
        THEN IF r.exportOk
             THEN [ result   |-> [images |-> imgs, stats |-> stats, csvPath |-> "target_path"],
                    exported |-> [kind |-> "csv", rows |-> ExportCsv(imgs)] ]
             ELSE [ result   |-> [error |-> "CSV export failed", images |-> imgs,
                                  stats |-> stats, csvPath |-> "target_path"],
                    exported |-> None ]
        ELSE [ result |-> [images |-> imgs, stats |-> stats], exported |-> None ]

ImgFile(name, img, sidecar, opens) ==
    [name |-> name, img |-> img, sidecar |-> sidecar, opens |-> opens]

FineGps == build_gps_ifd(Fin(FALSE, 10, 12345678), Fin(TRUE, 20, Scale \div 4), Fin(FALSE, 7, 0))

BadLatGps == [OldGps EXCEPT !.lat = <<<<1, 1>>, <<15, 0>>, <<0, 1>>>>]

BadAltGps == [OldGps EXCEPT !.alt = [num |-> 7, den |-> 0, ref |-> 0]]

N_x_txt == <<"x", ".", "t", "x", "t">>

\* the files folders are made of
ScanFiles ==
    << ImgFile(N_a_jpg, Img(TRUE, TRUE, FineGps, OldComment, "cam"), None, TRUE),
      ImgFile(N_B_JPG, Img(FALSE, TRUE, OldGps, OldComment, "cam"), None, TRUE),
      ImgFile(N_c_png, Img(TRUE, TRUE, OldGps, None, "cam"), None, TRUE),
      ImgFile(N_a_jpg, Img(TRUE, TRUE, None, None, "none"), None, TRUE),
      ImgFile(N_zz_jpg, Img(TRUE, TRUE, OldGps, OldComment, "cam"),
              build_xmp_packet(F_2, None, None), FALSE),
      ImgFile(N_b_jpg, Img(TRUE, TRUE, BadLatGps, PlainComment, "cam"), None, TRUE),
      ImgFile(N_b_jpg, Img(TRUE, TRUE, BadAltGps, OldComment, "none"),
              [kind |-> "xmp", elems |-> <<[tag |-> "Phi", text |-> T_abc]>>], TRUE),
      ImgFile(N_a_jpg, Img(TRUE, FALSE, OldGps, OldComment, "garbled"),
              build_xmp_packet(None, F_1, F_2), TRUE),
      ImgFile(N_x_txt, Img(TRUE, FALSE, None, None, "none"), None, FALSE) >>

\* the folder holding the files of the given places of ScanFiles, in glob order
FolderOf(q) == [i \in 1..Len(q) |-> ScanFiles[q[i]]]

\* a folder of n like files f1.jpg .. fn.jpg
LongFolder(n) ==
    [ i \in 1..n |->
        ImgFile(<<"f">> \o NatToDigits(i) \o <<".", "j", "p", "g">>,
                Img(TRUE, TRUE, IF i % 2 = 0 THEN OldGps ELSE None, None, "cam"), None, TRUE) ]

ScanRequest(folder, folderIsDir, pillow, mode, exportCsv, exportOk) ==
    [ folder |-> folder, folderIsDir |-> folderIsDir, pillow |-> pillow, mode |-> mode,
      exportCsv |-> exportCsv, exportOk |-> exportOk ]

ScanRequests ==
    { ScanRequest(TRUE, TRUE, TRUE, m, e, TRUE) : m \in {"scan", "full"}, e \in BOOLEAN }
        \cup { ScanRequest(TRUE, TRUE, TRUE, "full", TRUE, FALSE),
               ScanRequest(FALSE, TRUE, TRUE, "full", TRUE, TRUE),
               ScanRequest(TRUE, FALSE, TRUE, "scan", TRUE, TRUE),
               ScanRequest(TRUE, TRUE, FALSE, "full", TRUE, TRUE) }

ScanState(pc0, r, folder, paths) ==
    [ pc |-> pc0, request |-> r, folder |-> folder, paths |-> paths, idx |-> 0,
      images |-> <<>>, progress |-> <<>>, result |-> None, exported |-> None ]

\* a run of main of extract_gps.py, or a call of process_image on one file
ScanInit ==
    /\ pc = "scan"
    /\ csv = <<>>
    /\ images = [n \in FileNames |-> None]
    /\ sidecars = [n \in FileNames |-> None]
    /\ rows = <<>>
    /\ image_map = <<>>
    /\ rowIdx = 0
    /\ updated = 0
    /\ skipped = 0
    /\ errors = <<>>
    /\ logs = <<>>
    /\ result = None
    /\ fsLog = <<>>
    /\ record = None
    /\ codec = CodecIdle
    /\ req = GoodRequest
    /\ util = UtilIdle
    /\ \/ \E r \in ScanRequests, q \in SeqsUpTo(1..Len(ScanFiles), MaxScanFiles) :
              scan = ScanState("start", r, FolderOf(q), <<>>)
       \/ \E r \in ScanRequests, n \in ProgressEvery..MaxLongFolder :
              scan = ScanState("start", r, LongFolder(n), <<>>)
       \/ \E i \in 1..Len(ScanFiles), p \in BOOLEAN :
              scan = ScanState("call", ScanRequest(TRUE, TRUE, p, "scan", FALSE, TRUE),
                               <<ScanFiles[i]>>, <<ScanFiles[i]>>)

ScanUnchanged ==
    UNCHANGED <<pc, csv, images, sidecars, rows, image_map, rowIdx, updated, skipped, errors,
                logs, result, fsLog, record, codec, req, util>>

\* main lines 373-384: a request the scan is not started for
ScanError ==
    /\ scan.pc = "start"
    /\ scan_error(scan.request) /= ""
    /\ scan' = [scan EXCEPT !.pc = "failed",
                            !.result = [error |-> scan_error(scan.request), images |-> <<>>,
                                        stats |-> <<>>]]
    /\ ScanUnchanged

\* scan_folder lines 320-325: the paths are listed; an empty list ends the scan
ScanStart ==
    /\ scan.pc = "start"
    /\ scan_error(scan.request) = ""
    /\ LET paths == iter_image_paths(scan.folder)
       IN  scan' = IF Len(paths) = 0
                   THEN [scan EXCEPT !.pc = "scanned", !.paths = paths,
                                     !.progress = <<emit_progress(0, 0)>>]
                   ELSE [scan EXCEPT !.pc = "files", !.paths = paths]
    /\ ScanUnchanged

\* scan_folder lines 326-330: one turn of the loop, and the last progress event after
\* the last turn
ScanFile ==
    /\ scan.pc = "files"
    /\ scan.idx < Len(scan.paths)
    /\ LET idx   == scan.idx + 1
           total == Len(scan.paths)
           turn  == IF idx % ProgressEvery = 0 THEN <<emit_progress(idx, total)>> ELSE <<>>
           last  == IF idx = total THEN <<emit_progress(total, total)>> ELSE <<>>
       IN  scan' = [scan EXCEPT !.idx = idx,
                                !.images = Append(@, process_image_of(scan.paths[idx],
                                                                      scan.request.pillow)),
                                !.progress = @ \o turn \o last,
                                !.pc = IF idx = total THEN "scanned" ELSE "files"]
    /\ ScanUnchanged

\* main lines 386-433: the result is printed, after the export when there is one
ScanFinish ==
    /\ scan.pc = "scanned"
    /\ LET out == scan_output(scan.request, scan.images)
       IN  scan' = [scan EXCEPT !.pc = "done", !.result = out.result,
                                !.exported = out.exported]
    /\ ScanUnchanged

\* process_image called on one file
ProcessImage ==
    /\ scan.pc = "call"
    /\ scan' = [scan EXCEPT !.pc = "returned",
                            !.images = <<process_image_of(scan.paths[1], scan.request.pillow)>>]
    /\ ScanUnchanged

ScanNext == ScanError \/ ScanStart \/ ScanFile \/ ScanFinish \/ ProcessImage

SpecScan == ScanInit /\ [][ScanNext]_vars

\* ------------------------------------------------- the utilities on their own

\* Path(filename).stem of a bare file name: the name without its suffix
PathStem(name) == SubSeq(name, 1, Len(name) - Len(Suffix(name)))

\* re.match(r'^Flight_(\d{2})_(\d{4})$', stem, re.IGNORECASE): $ matches at the end of
\* the string and also just before a newline that ends the string
FlightMatch(stem) ==
    LET t == IF stem /= <<>> /\ stem[Len(stem)] = "\n" THEN SubSeq(stem, 1, Len(stem) - 1)
             ELSE stem
    IN  IF /\ Len(t) = 14
           /\ Lower(SubSeq(t, 1, 7)) = <<"f", "l", "i", "g", "h", "t", "_">>
           /\ AllDigits(SubSeq(t, 8, 9))
           /\ t[10] = "_"
           /\ AllDigits(SubSeq(t, 11, 14))
        THEN <<SubSeq(t, 8, 9), SubSeq(t, 11, 14)>>
        ELSE <<>>

NoFlight == [kind |-> "none"]

\* parse_flight_filename: (flight, image), NoFlight for (None, None)
parse_flight_filename(filename) ==
    LET m == FlightMatch(PathStem(filename))
    IN  IF m = <<>> THEN NoFlight
        ELSE [kind |-> "flight", flight |-> DigitsToNat(m[1]), image |-> DigitsToNat(m[2])]

\* the file names parse_flight_filename is applied to: head, flight number, separator,
\* image number, tail and extension
NameHeads ==
    { <<"F", "l", "i", "g", "h", "t", "_">>, <<"f", "l", "i", "g", "h", "t", "_">>,
      <<"F", "L", "I", "G", "H", "T", "_">>, <<"f", "L", "i", "G", "h", "T", "_">>,
      <<"I", "m", "a", "g", "e", "_">>, <<"x", "F", "l", "i", "g", "h", "t", "_">>,
      <<"F", "l", "i", "g", "h", "t">>, <<>> }

NameFlights == {<<"0", "1">>, <<"9", "9">>, <<"1">>, <<"1", "2", "3">>, <<"A", "1">>}

NameImages ==
    { <<"0", "0", "0", "1">>, <<"9", "9", "9", "9">>, <<"0", "0", "1">>,
      <<"0", "0", "0", "0", "1">>, <<"B", "0", "0", "1">>, <<>> }

NameTails == {<<>>, <<"\n">>, <<"_", "b">>, <<" ">>, <<"\n", "\n">>}

NameExts ==
    { <<".", "j", "p", "g">>, <<".", "J", "P", "G">>, <<>>, <<".">>,
      <<".", "t", "a", "r", ".", "g", "z">> }

FlightNames ==
    { h \o f \o sep \o i \o t \o e :
        h \in NameHeads, f \in NameFlights, sep \in {<<"_">>, <<"-">>}, i \in NameImages,
        t \in NameTails, e \in NameExts }

\* ---- copy_selected.py: folders are maps from names to entries; the source folder and
\* the destination folder each sit in a parent folder of their own
MaxListed == 2

FileEntry(data, mode) == [kind |-> "file", data |-> data, mode |-> mode]

DirEntry == [kind |-> "dir"]

N_locked_jpg == <<"l", "o", "c", "k", "e", "d", ".", "j", "p", "g">>

N_sub == <<"s", "u", "b">>

N_up_a_jpg == <<".", ".", "/">> \o N_a_jpg

CopyNames == {N_a_jpg, N_B_JPG, N_zz_jpg, N_locked_jpg, N_sub}

\* the lists of file names handed to copy_selected_files
ListedPool == {N_a_jpg, N_B_JPG, N_locked_jpg, N_sub, N_up_a_jpg}

ListedLists == UNION {[1..n -> ListedPool] : n \in 0..MaxListed}

Folder(entries) == [n \in CopyNames |-> IF n \in DOMAIN entries THEN entries[n] ELSE None]

\* the folders before the run: B.JPG may be missing from the source folder, the source's
\* parent may hold an a.jpg of its own, the destination may already hold an a.jpg
CopyTree(srcHasB, parentHasA, dstA) ==
    [ src |-> Folder((N_a_jpg :> FileEntry("S", "rw")) @@ (N_zz_jpg :> FileEntry("Z", "rw"))
                     @@ (N_locked_jpg :> FileEntry("L", "none")) @@ (N_sub :> DirEntry)
                     @@ (IF srcHasB THEN (N_B_JPG :> FileEntry("B", "rw")) ELSE <<>>)),
      srcParent |-> Folder(IF parentHasA THEN (N_a_jpg :> FileEntry("P", "rw")) ELSE <<>>),
      dst |-> Folder(IF dstA = None THEN <<>> ELSE (N_a_jpg :> dstA)),
      dstParent |-> Folder(<<>>) ]

ParentOf(folder) == IF folder = "src" THEN "srcParent" ELSE "dstParent"

\* folder / filename: a leading ../ steps to the parent of the folder
JoinPath(folder, filename) ==
    IF Len(filename) > 3 /\ SubSeq(filename, 1, 3) = <<".", ".", "/">>
    THEN <<ParentOf(folder), SubSeq(filename, 4, Len(filename))>>
    ELSE <<folder, filename>>

EntryAt(fs, path) == fs[path[1]][path[2]]

\* shutil.copy2(source_file, dest_file): "ok" with the folders after it, or the error
copy2(fs, source_file, dest_file) ==
    LET from == EntryAt(fs, source_file)
        onto == EntryAt(fs, dest_file)
    IN  IF from.mode = "none" THEN [ok |-> FALSE, fs |-> fs]
        ELSE IF onto.kind = "file" /\ onto.mode /= "rw" THEN [ok |-> FALSE, fs |-> fs]
        ELSE [ok |-> TRUE, fs |-> [fs EXCEPT ![dest_file[1]][dest_file[2]] = from]]

\* ---- rename_images.py: a folder is [exists, files], files a map from the names in
\* it to what they hold; the folders are the source, the output folder of the
\* payload, the default output folder renamed inside the source, and a path that is
\* no folder
VALID_EXT ==
    { <<".", "j", "p", "g">>, <<".", "j", "p", "e", "g">>, <<".", "p", "n", "g">>,
      <<".", "t", "i", "f">>, <<".", "t", "i", "f", "f">>, <<".", "b", "m", "p">>,
      <<".", "w", "e", "b", "p">> }

MANIFEST_NAME ==
    << ".", "s", "h", "a", "m", "a", "l", "_", "f", "l", "i", "g", "h", "t", "_",
       "r", "e", "n", "a", "m", "e", "_", "l", "a", "s", "t", ".", "j", "s", "o", "n" >>

RenameLocs == {"src", "out", "renamed", "gone"}

NoFolder == [exists |-> FALSE, files |-> <<>>]

FolderWith(files) == [exists |-> TRUE, files |-> files]

ManifestEntry(targets) == [kind |-> "manifest", targets |-> targets]

\* iter_images of rename_images.py: the regular files with a valid extension, sorted by
\* lower-cased name
RECURSIVE rename_iter_images(_)
rename_iter_images(folder) ==
    LET names == {n \in DOMAIN folder.files :
                    folder.files[n].kind = "file" /\ Lower(Suffix(n)) \in VALID_EXT}
    IN  IF ~folder.exists \/ names = {} THEN <<>>
        ELSE LET first == CHOOSE n \in names : \A m \in names : TextLeq(Lower(n), Lower(m))
             IN  <<first>> \o rename_iter_images(
                     [folder EXCEPT !.files = [m \in DOMAIN folder.files \ {first} |->
                                                 folder.files[m]]])

\* str(seq).zfill(width)
RECURSIVE zfill(_, _)
zfill(t, width) == IF Len(t) >= width THEN t ELSE zfill(<<"0">> \o t, width)

\* build_name with the default options: Flight_##_#### with flight and image numbers
\* 1 + idx, and .jpg
build_name(idx) ==
    <<"F", "l", "i", "g", "h", "t", "_">> \o zfill(NatToDigits(1 + idx), 2) \o <<"_">>
        \o zfill(NatToDigits(1 + idx), 4) \o <<".", "j", "p", "g">>

\* ensure_unique: the name with _1, _2, ... before its extension until no file of the
\* folder has it
RECURSIVE ensure_unique_from(_, _, _)
ensure_unique_from(folder, filename, counter) ==
    LET candidate == PathStem(filename) \o <<"_">> \o NatToDigits(counter) \o Suffix(filename)
    IN  IF candidate \in DOMAIN folder.files
        THEN ensure_unique_from(folder, filename, counter + 1)
        ELSE candidate

ensure_unique(folder, filename) ==
    IF filename \in DOMAIN folder.files THEN ensure_unique_from(folder, filename, 1)
    ELSE filename

\* shutil.copy2(str(img), str(target_path)) of process
rename_copy2(fs, img, target_path) ==
    LET from == fs[img[1]].files[img[2]]
    IN  IF img = target_path \/ from.mode = "none" \/ ~fs[target_path[1]].exists
        THEN [ok |-> FALSE, fs |-> fs]
        ELSE [ok |-> TRUE,
              fs |-> [fs EXCEPT ![target_path[1]].files =
                         (target_path[2] :> from) @@
                         [m \in DOMAIN @ \ {target_path[2]} |-> @[m]]]]

\* path.unlink() of a file that exists
Unlink(fs, path) ==
    [fs EXCEPT ![path[1]].files = [m \in DOMAIN @ \ {path[2]} |-> @[m]]]

\* undo_last: the loop over the entries of the manifest
RECURSIVE undo_entries(_, _, _)
undo_entries(fs, data, removed) ==
    IF data = <<>> THEN [fs |-> fs, removed |-> removed]
    ELSE LET p == Head(data)
         IN  IF p[2] \in DOMAIN fs[p[1]].files
             THEN undo_entries(Unlink(fs, p), Tail(data), removed + 1)
             ELSE undo_entries(fs, Tail(data), removed)

\* undo_last(output_dir): the folders after it and its result
undo_last(fs, output_dir) ==
    IF MANIFEST_NAME \notin DOMAIN fs[output_dir].files
    THEN [fs |-> fs, res |-> [removed |-> 0, errors |-> <<"No manifest found">>]]
    ELSE IF fs[output_dir].files[MANIFEST_NAME].kind /= "manifest"
    THEN [fs |-> fs, res |-> [removed |-> 0, errors |-> <<"Failed to read manifest">>]]
    ELSE LET done == undo_entries(fs, fs[output_dir].files[MANIFEST_NAME].targets, 0)
         IN  [fs |-> Unlink(done.fs, <<output_dir, MANIFEST_NAME>>),
              res |-> [removed |-> done.removed, errors |-> <<>>]]

\* write_manifest(output_dir, files)
write_manifest(fs, output_dir, files) ==
    [fs EXCEPT ![output_dir].files =
        (MANIFEST_NAME :> ManifestEntry([k \in 1..Len(files) |-> files[k].targetPath])) @@
        [m \in DOMAIN @ \ {MANIFEST_NAME} |-> @[m]]]

\* payload.get("mode", "preview")
ModeOf(payload) == IF "mode" \in DOMAIN payload THEN payload.mode ELSE "preview"

N_Flight_01_0001_jpg == build_name(0)

N_Flight_01_0001_1_jpg == ensure_unique(FolderWith(N_Flight_01_0001_jpg :> None), N_Flight_01_0001_jpg)

\* the source folders, output folders and default output folders a run starts from
SourceFolders ==
    << FolderWith(<<>>),
       FolderWith(N_a_jpg :> FileEntry("A", "rw")),
       FolderWith((N_a_jpg :> FileEntry("A", "rw")) @@ (N_B_JPG :> FileEntry("B", "rw"))
                  @@ (N_x_txt :> FileEntry("x", "rw")) @@ (N_sub :> DirEntry)),
       FolderWith((N_a_jpg :> FileEntry("A", "none")) @@ (N_c_png :> FileEntry("C", "rw"))) >>

OutputFolders ==
    << NoFolder,
       FolderWith(<<>>),
       FolderWith(N_Flight_01_0001_jpg :> FileEntry("old", "rw")),
       FolderWith((N_Flight_01_0001_jpg :> FileEntry("old", "rw"))
                  @@ (N_Flight_01_0001_1_jpg :> FileEntry("A", "rw"))
                  @@ (N_zz_jpg :> FileEntry("Z", "rw"))
                  @@ (MANIFEST_NAME :> ManifestEntry(<<<<"out", N_Flight_01_0001_1_jpg>>,
                                                       <<"out", build_name(1)>>>>))),
       FolderWith((N_Flight_01_0001_jpg :> FileEntry("old", "rw"))
                  @@ (MANIFEST_NAME :> FileEntry("garbage", "rw"))) >>

RenamedFolders ==
    << NoFolder,
       FolderWith((N_Flight_01_0001_jpg :> FileEntry("A", "rw"))
                  @@ (MANIFEST_NAME :> ManifestEntry(<<<<"renamed", N_Flight_01_0001_jpg>>>>))) >>

RenameModes == {"preview", "scan", "execute", "undo", "dry-run", ""}

RenameState(payload, s, o, r) ==
    LET tree == [ src |-> SourceFolders[s], out |-> OutputFolders[o],
                  renamed |-> RenamedFolders[r], gone |-> NoFolder ]
    IN  [ task |-> "rename", pc |-> "start", payload |-> payload, fs0 |-> tree, fs |-> tree,
          images |-> <<>>, out_path |-> "", idx |-> 0, files |-> <<>>, updated |-> 0,
          skipped |-> 0, errors |-> <<>>, seen_names |-> {}, result |-> None ]

UtilInit ==
    /\ pc = "util"
    /\ csv = <<>>
    /\ images = [n \in FileNames |-> None]
    /\ sidecars = [n \in FileNames |-> None]
    /\ rows = <<>>
    /\ image_map = <<>>
    /\ rowIdx = 1
    /\ updated = 0
    /\ skipped = 0
    /\ errors = <<>>
    /\ logs = <<>>
    /\ result = None
    /\ fsLog = <<>>
    /\ record = None
    /\ codec = CodecIdle
    /\ req = GoodRequest
    /\ scan = ScanIdle
    /\ \/ \E name \in FlightNames : util = [task |-> "parse", pc |-> "call", filename |-> name]
       \/ \E filenames \in ListedLists, srcHasB, parentHasA \in BOOLEAN,
             dstA \in {None, FileEntry("old", "rw"), FileEntry("old", "r")} :
            util = [ task |-> "copy", pc |-> "loop", filenames |-> filenames, i |-> 1,
                     fs0 |-> CopyTree(srcHasB, parentHasA, dstA),
                     fs |-> CopyTree(srcHasB, parentHasA, dstA),
                     copied_count |-> 0, copies |-> <<>>, stderr |-> <<>>, result |-> None ]
       \/ \E source \in {"", "src", "gone"}, output \in {"", "out"},
             s \in DOMAIN SourceFolders, o \in DOMAIN OutputFolders,
             r \in DOMAIN RenamedFolders :
            \/ util = RenameState([source |-> source, output |-> output], s, o, r)
            \/ \E mode \in RenameModes :
                 util = RenameState([mode |-> mode, source |-> source, output |-> output],
                                    s, o, r)

UtilUnchanged ==
    UNCHANGED <<pc, csv, images, sidecars, rows, image_map, rowIdx, updated, skipped, errors,
                logs, result, fsLog, record, codec, req, scan>>

\* parse_flight_filename called on a file name
ParseFlightFilename ==
    /\ util.task = "parse"
    /\ util.pc = "call"
    /\ util' = [ task |-> "parse", pc |-> "returned", filename |-> util.filename,
                 out |-> parse_flight_filename(util.filename) ]
    /\ UtilUnchanged

\* copy_selected_files: the body of the loop for one file name (the batches of 100 are
\* walked in list order, one name after the other)
CopyOne ==
    /\ util.task = "copy"
    /\ util.pc = "loop"
    /\ util.i <= Len(util.filenames)
    /\ LET filename == util.filenames[util.i]
           source_file == JoinPath("src", filename)
           dest_file == JoinPath("dst", filename)
           from == EntryAt(util.fs, source_file)
           done == copy2(util.fs, source_file, dest_file)
           next == [util EXCEPT !.i = util.i + 1]
       IN  util' =
             IF from = None
             THEN [next EXCEPT !.stderr = Append(@, <<"File not found", filename>>)]
             ELSE IF from.kind /= "file"
             THEN [next EXCEPT !.stderr = Append(@, <<"Not a file", filename>>)]
             ELSE IF done.ok
             THEN [next EXCEPT !.fs = done.fs, !.copied_count = @ + 1,
                               !.copies = Append(@, [filename |-> filename,
                                                     from |-> source_file, to |-> dest_file])]
             ELSE [next EXCEPT !.stderr = Append(@, <<"Error", filename>>)]
    /\ UtilUnchanged

\* copy_selected_files: the return after the last file name
CopyReturn ==
    /\ util.task = "copy"
    /\ util.pc = "loop"
    /\ util.i > Len(util.filenames)
    /\ util' = [util EXCEPT !.pc = "returned",
                            !.result = [success |-> TRUE, copied_count |-> util.copied_count]]
    /\ UtilUnchanged

\* process, lines 197-251: the checks of the payload, mode scan, the output folder
RenameStart ==
    /\ util.task = "rename"
    /\ util.pc = "start"
    /\ LET mode == ModeOf(util.payload)
           source == util.payload.source
           imgs == rename_iter_images(util.fs[source])
           output == IF mode \in {"execute", "undo"} /\ util.payload.output = ""
                     THEN "renamed" ELSE util.payload.output
           made == IF mode \in {"execute", "undo"}
                   THEN [util.fs EXCEPT ![output].exists = TRUE] ELSE util.fs
       IN  util' =
             IF source = ""
             THEN [util EXCEPT !.pc = "returned",
                     !.result = [ok |-> FALSE, error |-> "Source folder is required"]]
             ELSE IF ~util.fs[source].exists
             THEN [util EXCEPT !.pc = "returned",
                     !.result = [ok |-> FALSE, error |-> "Source folder invalid"]]
             ELSE IF mode = "scan"
             THEN [util EXCEPT !.pc = "returned", !.images = imgs,
                     !.result = [ok |-> TRUE, processed |-> Len(imgs),
                                 files |-> [k \in 1..Len(imgs) |->
                                     [ originalName |-> imgs[k], newName |-> <<>>,
                                       sourcePath |-> <<source, imgs[k]>>,
                                       targetPath |-> <<source, imgs[k]>>, ok |-> TRUE ]]]]
             ELSE [util EXCEPT !.pc = IF mode = "undo" THEN "undo" ELSE "loop",
                     !.images = imgs, !.out_path = output, !.fs = made]
    /\ UtilUnchanged

\* process, lines 248-251: mode undo
RenameUndo ==
    /\ util.task = "rename"
    /\ util.pc = "undo"
    /\ LET done == undo_last(util.fs, util.out_path)
       IN  util' = [util EXCEPT !.pc = "returned", !.fs = done.fs,
                      !.result = [ ok |-> done.res.errors = <<>>, removed |-> done.res.removed,
                                   errors |-> done.res.errors, outputFolder |-> util.out_path ]]
    /\ UtilUnchanged

\* process, lines 253-288: the body of the loop for one image
RenameImage ==
    /\ util.task = "rename"
    /\ util.pc = "loop"
    /\ util.idx < Len(util.images)
    /\ LET mode == ModeOf(util.payload)
           img == <<util.payload.source, util.images[util.idx + 1]>>
           new_name == build_name(util.idx)
           target_path ==
               IF mode = "preview" THEN <<".", new_name>>
               ELSE IF util.out_path /= ""
                    THEN <<util.out_path, ensure_unique(util.fs[util.out_path], new_name)>>
                    ELSE img
           newName == IF mode = "preview" THEN new_name ELSE target_path[2]
           dup == Lower(newName) \in util.seen_names
           entry == [ originalName |-> img[2], newName |-> newName, sourcePath |-> img,
                      targetPath |-> target_path, ok |-> ~dup ]
           done == rename_copy2(util.fs, img, target_path)
           seen == [util EXCEPT !.idx = @ + 1,
                      !.seen_names = @ \cup {Lower(newName)},
                      !.errors = IF dup THEN Append(@, <<"Duplicate name", newName>>) ELSE @]
       IN  util' =
             IF mode = "preview" THEN [seen EXCEPT !.files = Append(@, entry)]
             ELSE IF done.ok
             THEN [seen EXCEPT !.fs = done.fs, !.updated = @ + 1, !.files = Append(@, entry)]
             ELSE [seen EXCEPT !.skipped = @ + 1,
                     !.errors = Append(@, <<"copy failed", img[2]>>),
                     !.files = Append(@, [entry EXCEPT !.ok = FALSE])]
    /\ UtilUnchanged

\* process, lines 290-303: the result and the manifest
RenameFinish ==
    /\ util.task = "rename"
    /\ util.pc = "loop"
    /\ util.idx >= Len(util.images)
    /\ LET mode == ModeOf(util.payload)
           executed == mode = "execute" /\ util.out_path /= ""
       IN  util' = [util EXCEPT !.pc = "returned",
                      !.fs = IF executed THEN write_manifest(@, util.out_path, util.files)
                             ELSE @,
                      !.result = [ ok |-> TRUE, files |-> util.files,
                                   processed |-> Len(util.files),
                                   updated |-> IF mode = "execute" THEN util.updated ELSE 0,
                                   skipped |-> IF mode = "execute" THEN util.skipped ELSE 0,
                                   errors |-> util.errors ]]
    /\ UtilUnchanged

UtilNext ==
    \/ ParseFlightFilename
    \/ CopyOne
    \/ CopyReturn
    \/ RenameStart
    \/ RenameUndo
    \/ RenameImage
    \/ RenameFinish

SpecUtil == UtilInit /\ [][UtilNext]_vars

\* ================================================================ claims

\* the rows main has gone through so far
DoneRows == IF pc \in {"rows", "done"} THEN 1..(rowIdx - 1) ELSE {}

ErrorsOfRow(r) == {k \in 1..Len(errors) : errors[k].row = r.row}

LogsOfRow(r) == {k \in 1..Len(logs) : logs[k].row = r.row}

ImageWritesOfRow(r) == {k \in 1..Len(fsLog) : fsLog[k].row = r.row /\ fsLog[k].what = "image"}

\* the nine checks of the design, numbered in its order, on a row with the name it asks
\* for and its two coordinates as numbers: the first check that fails, 0 when none does
FirstFailureOn(r, name, lat, lon) ==
    IF Strip(r.image_name) = <<>> THEN 1
    ELSE IF Strip(r.latitude) = <<>> THEN 2
    ELSE IF Strip(r.longitude) = <<>> THEN 3
    ELSE IF lat = None THEN 4
    ELSE IF lon = None THEN 5
    ELSE IF ~(IsFin(lat) /\ MagLeq(lat, Fin(FALSE, 90, 0))) THEN 6
    ELSE IF ~(IsFin(lon) /\ MagLeq(lon, Fin(FALSE, 180, 0))) THEN 7
    ELSE IF name \notin DOMAIN image_map THEN 8
    ELSE IF ~images[image_map[name]].writable THEN 9
    ELSE 0

\* the first check of the fixed order that row r fails, 0 when it passes all nine
FirstFailure(r) ==
    FirstFailureOn(r, Lower(Strip(r.image_name)), normalize_float(r.latitude),
                   normalize_float(r.longitude))

\* the reason of the design for a failure of check k
ReasonOfCheck(k, r) ==
    CASE k = 1 -> <<"Missing image name">>
      [] k \in {2, 4} -> <<"Invalid latitude">>
      [] k \in {3, 5} -> <<"Invalid longitude">>
      [] k = 6 -> <<"Latitude out of range">>
      [] k = 7 -> <<"Longitude out of range">>
      [] k = 8 -> <<"Image not found for ">> \o Strip(r.image_name)
      [] k = 9 -> <<"Read-only file skipped: ">> \o image_map[Lower(Strip(r.image_name))]

\* C1: every row gone through that fails one of the nine checks has exactly one entry
\* in errors, and its reason is the reason of the first check, in the fixed order
\* name, latitude present, longitude present, latitude numeric, longitude numeric,
\* latitude range, longitude range, image found, image writable, that the row fails.
C1_FirstFailingCheckReported ==
    \A i \in DoneRows :
        \A ff \in {FirstFailure(rows[i])} :
            ff /= 0 =>
                /\ Cardinality(ErrorsOfRow(rows[i])) = 1
                /\ \A k \in ErrorsOfRow(rows[i]) : errors[k].reason = ReasonOfCheck(ff, rows[i])

\* C1 witness: a row with an empty latitude and an unknown image name has gone through
\* and is reported as invalid latitude
C1_Witness ==
    \E i \in DoneRows :
        /\ Strip(rows[i].latitude) = <<>>
        /\ Strip(rows[i].image_name) /= <<>>
        /\ Lower(Strip(rows[i].image_name)) \notin DOMAIN image_map
        /\ \E k \in ErrorsOfRow(rows[i]) : errors[k].reason = <<"Invalid latitude">>

\* the data rows of a CSV file as the design counts them: the non-blank rows, less the
\* first of them when its cells name a name field, latitude and longitude
NonBlankRows(file) == {i \in 1..Len(file) : \E j \in 1..Len(file[i]) : Strip(file[i][j]) /= <<>>}

IsHeaderRow(row) ==
    LET cells == {Lower(Strip(row[j])) : j \in 1..Len(row)}
    IN  /\ H_latitude \in cells
        /\ H_longitude \in cells
        /\ (H_filename \in cells \/ H_image_name \in cells)

DataRowCount(file) ==
    LET nb == NonBlankRows(file)
    IN  IF nb /= {} /\ IsHeaderRow(file[CHOOSE i \in nb : \A j \in nb : i <= j])
        THEN Cardinality(nb) - 1
        ELSE Cardinality(nb)

\* C2: in the result of a batch, processed is the number of non-blank, non-header rows
\* of the CSV, updated is the number of rows whose image write went through, and
\* processed = updated + skipped.
C2_CountersPartitionRows ==
    pc = "done" =>
        /\ result.processed = DataRowCount(csv)
        /\ result.updated = Cardinality({k \in 1..Len(fsLog) : fsLog[k].what = "image"})
        /\ result.processed = result.updated + result.skipped

\* C2 witness: a batch of a header row and a data row ends with processed = 1
C2_Witness ==
    /\ pc = "done"
    /\ Len(csv) = 2
    /\ IsHeaderRow(csv[1])
    /\ result.processed = 1
    /\ result.updated + result.skipped = 1

\* two stored comments are the same: both absent, or the same bytes
SameComment(a, b) == IF a = None THEN b = None ELSE a = b

\* the image a row names, for a row that passes the checks
PathOfRow(r) == image_map[Lower(Strip(r.image_name))]

OrientationOfRow(r) == <<ParsedRow(r).phi, ParsedRow(r).alpha, ParsedRow(r).kappa>>

\* main is about to go through a row
AtRow == pc = "rows" /\ rowIdx <= Len(rows)

\* C3, the step of a failing row: a row that fails one of the nine checks (a JPEG
\* without write permission included) leaves every image and every sidecar as it was
C3_FailedRowTouchesNoFile ==
    (AtRow /\ FirstFailure(rows[rowIdx]) /= 0) => (images' = images /\ sidecars' = sidecars)

\* C3, the batch goes on: at the end every row has its outcome, and every row that
\* passes the nine checks had its image written unless the write itself was reported failed
C3_EveryRowProcessed ==
    pc = "done" =>
        /\ rowIdx = Len(rows) + 1
        /\ \A i \in 1..Len(rows) :
               /\ Cardinality(ErrorsOfRow(rows[i])) + Cardinality(ImageWritesOfRow(rows[i])) = 1
               /\ FirstFailure(rows[i]) = 0 =>
                      \/ ImageWritesOfRow(rows[i]) /= {}
                      \/ \E k \in ErrorsOfRow(rows[i]) :
                             errors[k].reason = <<"Failed to write GPS for ">> \o PathOfRow(rows[i])
                                                \o <<": ", "piexif insert failed">>

\* C3: a row that fails any validation check, a matching JPEG without write permission
\* included, leaves every image file and every sidecar unchanged, and the batch goes on:
\* every later row is still processed and a later valid row's writable image is written.
C3_FailedRowIsolated == [][C3_FailedRowTouchesNoFile]_vars /\ []C3_EveryRowProcessed

\* C3 witness: the first row named a JPEG without write permission and was skipped, the
\* second row was valid and its image was written
C3_Witness ==
    /\ pc = "done"
    /\ Len(rows) = 2
    /\ FirstFailure(rows[1]) = 9
    /\ FirstFailure(rows[2]) = 0
    /\ ImageWritesOfRow(rows[2]) /= {}
    /\ images[PathOfRow(rows[1])].gps = None

\* C4: the logs of the result hold exactly one entry for every processed row, whatever
\* check the row failed (missing name, empty latitude and empty longitude included).
C4_OneLogPerRow ==
    pc = "done" =>
        /\ Len(result.logs) = result.processed
        /\ \A i \in 1..Len(rows) : Cardinality(LogsOfRow(rows[i])) = 1

\* C5: a row with orientation that reaches write_gps_to_image leaves the image's GPS
\* block, its comment and its sidecar all carrying the row's values, or none of the
\* three changed.
C5_AllOrNothing ==
    [][ (AtRow /\ FirstFailure(rows[rowIdx]) = 0 /\ OrientationOfRow(rows[rowIdx]) /= NoOrientation
              /\ (ParsedRow(rows[rowIdx]).alt = None \/ IsFin(ParsedRow(rows[rowIdx]).alt)))
        => LET r == rows[rowIdx]
               n == PathOfRow(r)
               o == OrientationOfRow(r)
           IN  \/ /\ images'[n].gps = build_gps_ifd(ParsedRow(r).lat, ParsedRow(r).lon, ParsedRow(r).alt)
                  /\ SameComment(encode_user_comment(format_orientation_json(o[1], o[2], o[3])),
                                 images'[n].comment)
                  /\ sidecars'[n] = build_xmp_packet(o[1], o[2], o[3])
               \/ /\ images'[n] = images[n]
                  /\ sidecars'[n] = sidecars[n] ]_vars

\* the orientation a record carries
OrientationOfRecord(rec) == <<rec.phi, rec.alpha, rec.kappa>>

\* the orientation the embedded comment of an image file holds
OrientationOfComment(img) ==
    IF img.loadable /\ img.comment /= None
    THEN parse_orientation_comment(decode_user_comment(img.comment))
    ELSE NoOrientation

\* C6: the orientation of a record read from an image is exactly the triple of its
\* sidecar when the sidecar exists and yields a field (the fields the sidecar lacks are
\* absent, whatever the comment holds); it is the comment's triple only when there is no
\* sidecar or the sidecar yields nothing.
C6_SidecarWinsWholesale ==
    record /= None =>
        LET n == record.filename
            x == parse_xmp_sidecar(sidecars[n])
        IN  IF sidecars[n] /= None /\ (\E i \in 1..3 : x[i] /= None)
            THEN OrientationOfRecord(record) = x
            ELSE OrientationOfRecord(record) = OrientationOfComment(images[n])

\* C6 witness: a sidecar with phi = 2.0 beside a comment with phi = 9.0 and alpha = 1.0
\* was read as phi = 2.0 with alpha and kappa absent
C6_Witness ==
    /\ record /= None
    /\ sidecars[record.filename] = build_xmp_packet(F_2, None, None)
    /\ OrientationOfComment(images[record.filename]) = <<F_9, F_1, None>>
    /\ OrientationOfRecord(record) = <<F_2, None, None>>

\* the positions of the fields of an orientation that are present
PresentFields(o) == {i \in 1..3 : o[i] /= None}

\* the keys of the JSON object a comment holds, <<"fail">> when it holds none
KeysOfComment(comment) ==
    LET data == JsonLoads(decode_user_comment(comment))
    IN  IF data[1] = "ok" THEN [i \in 1..Len(data[2]) |-> MemberKey(data[2][i])] ELSE <<"fail">>

\* the payload of a comment names exactly the present fields of o, each once
CommentHasExactly(comment, o) ==
    LET keys == KeysOfComment(comment)
    IN  /\ Len(keys) = Cardinality(PresentFields(o))
        /\ {keys[i] : i \in 1..Len(keys)} = {JsonKeys[i] : i \in PresentFields(o)}

\* the packet of a sidecar names exactly the present fields of o, each once
SidecarHasExactly(sidecar, o) ==
    /\ sidecar /= None
    /\ Len(sidecar.elems) = Cardinality(PresentFields(o))
    /\ {sidecar.elems[i].tag : i \in 1..Len(sidecar.elems)} = {XmpTags[i] : i \in PresentFields(o)}

\* C7: a successful write of a row whose three orientation fields are absent leaves
\* the image's comment and its sidecar as they were and writes no sidecar file; a
\* successful write of a row with a field present stores a comment that names exactly
\* the present fields, and the sidecar it writes names exactly the present fields.
C7_PayloadOnlyOfPresentFields ==
    [][ (AtRow /\ updated' = updated + 1)
        => LET r == rows[rowIdx]
               n == PathOfRow(r)
               o == OrientationOfRow(r)
           IN  IF o = NoOrientation
               THEN /\ SameComment(images'[n].comment, images[n].comment)
                    /\ sidecars'[n] = sidecars[n]
                    /\ Len(fsLog') = Len(fsLog) + 1
                    /\ fsLog'[Len(fsLog')].what = "image"
               ELSE /\ CommentHasExactly(images'[n].comment, o)
                    /\ IF Len(fsLog') = Len(fsLog) + 2
                       THEN SidecarHasExactly(sidecars'[n], o)
                       ELSE sidecars'[n] = sidecars[n] ]_vars

\* C7 witness: a row without orientation was written onto an image that keeps its old
\* comment and sidecar, and a row with phi and kappa was written with a comment and a
\* sidecar of exactly those two fields
C7_Witness ==
    /\ pc = "done"
    /\ \E i \in 1..Len(rows) :
           /\ OrientationOfRow(rows[i]) = NoOrientation
           /\ ImageWritesOfRow(rows[i]) /= {}
           /\ SameComment(OldComment, images[PathOfRow(rows[i])].comment)
           /\ images[PathOfRow(rows[i])].gps /= OldGps
           /\ sidecars[PathOfRow(rows[i])] = build_xmp_packet(F_2, None, None)
    /\ \E j \in 1..Len(rows) :
           /\ PresentFields(OrientationOfRow(rows[j])) = {1, 3}
           /\ ImageWritesOfRow(rows[j]) /= {}
           /\ CommentHasExactly(images[PathOfRow(rows[j])].comment, OrientationOfRow(rows[j]))
           /\ SidecarHasExactly(sidecars[PathOfRow(rows[j])], OrientationOfRow(rows[j]))

\* C8: an orientation with a field present, encoded by format_orientation_json and
\* encode_user_comment and decoded by decode_user_comment and parse_orientation_comment,
\* comes back as the same triple: present fields with their value, absent fields absent.
C8_OrientationRoundTrip ==
    (codec.task = "orientation" /\ codec.stage = "decoded" /\ codec.o /= NoOrientation)
        => codec.decoded = codec.o

\* C8 witness: phi = 1.5 alone went through the round trip and came back with alpha and
\* kappa absent
C8_Witness ==
    /\ codec.task = "orientation"
    /\ codec.stage = "decoded"
    /\ codec.o = <<Fin(FALSE, 1, 50000000), None, None>>
    /\ codec.comment = AsciiPrefix \o <<"{", "\"", "p", "h", "i", "\"", ":", "1", ".", "5", "}">>
    /\ codec.decoded = <<Fin(FALSE, 1, 50000000), None, None>>

\* 1e-4 degrees in units of the last fractional digit
Tolerance == Scale \div 10000

\* |x - y| <= Tolerance for two finite numbers
Within(x, y) ==
    IF x.neg = y.neg \/ IsZero(x) \/ IsZero(y)
    THEN /\ x.whole - y.whole \in {-1, 0, 1}
         /\ (x.whole - y.whole) * Scale + x.frac - y.frac <= Tolerance
         /\ (y.whole - x.whole) * Scale + y.frac - x.frac <= Tolerance
    ELSE x.whole = 0 /\ y.whole = 0 /\ x.frac + y.frac <= Tolerance

\* y has the sign of x: not negative when x is not, not positive when x is negative
SameSign(x, y) ==
    IF FloatGeqZero(x) THEN FloatGeqZero(y) ELSE (y.neg \/ IsZero(y))

\* C9: a latitude in [-90,90] and a longitude in [-180,180], stored by build_gps_ifd
\* (to_rational and the reference N/E for a value >= 0, S/W for a negative one) and
\* decoded by dms_to_decimal, come back within 1e-4 degrees and with their sign.
C9_CoordinateRoundTrip ==
    (codec.task = "coordinate" /\ codec.stage = "decoded")
        => /\ codec.gps.lat_ref = (IF FloatGeqZero(codec.lat) THEN "N" ELSE "S")
           /\ codec.gps.lon_ref = (IF FloatGeqZero(codec.lon) THEN "E" ELSE "W")
           /\ IsFin(codec.decoded[1]) /\ IsFin(codec.decoded[2])
           /\ Within(codec.lat, codec.decoded[1]) /\ SameSign(codec.lat, codec.decoded[1])
           /\ Within(codec.lon, codec.decoded[2]) /\ SameSign(codec.lon, codec.decoded[2])

\* C9 witness: -33.5 was stored with the reference S and came back as -33.5, beside a
\* longitude that came back rounded, not equal
C9_Witness ==
    /\ codec.task = "coordinate"
    /\ codec.stage = "decoded"
    /\ codec.lat = Fin(TRUE, 33, 50000000)
    /\ codec.gps.lat_ref = "S"
    /\ codec.decoded[1] = Fin(TRUE, 33, 50000000)
    /\ codec.lon.neg
    /\ codec.gps.lon_ref = "W"
    /\ codec.decoded[2] /= codec.lon

\* a parsed coordinate lies in [-limit, limit], the bounds included
InClosedRange(x, limit) == IsFin(x) /\ (x.whole < limit \/ (x.whole = limit /\ x.frac = 0))

RangeReasons == {<<"Latitude out of range">>, <<"Longitude out of range">>}

\* C10: a row gone through whose name is there and whose latitude and longitude are
\* numbers is reported as latitude out of range when the latitude is outside [-90,90],
\* else as longitude out of range when the longitude is outside [-180,180], and in both
\* cases its image is not written; with both inside, the bounds themselves included, it
\* is not reported as out of range.
C10_RangeChecksInclusive ==
    \A i \in DoneRows :
        \A lat \in {normalize_float(rows[i].latitude)}, lon \in {normalize_float(rows[i].longitude)} :
            (Strip(rows[i].image_name) /= <<>> /\ lat /= None /\ lon /= None) =>
                IF ~InClosedRange(lat, 90)
                THEN /\ \A k \in ErrorsOfRow(rows[i]) : errors[k].reason = <<"Latitude out of range">>
                     /\ ErrorsOfRow(rows[i]) /= {}
                     /\ ImageWritesOfRow(rows[i]) = {}
                ELSE IF ~InClosedRange(lon, 180)
                THEN /\ \A k \in ErrorsOfRow(rows[i]) : errors[k].reason = <<"Longitude out of range">>
                     /\ ErrorsOfRow(rows[i]) /= {}
                     /\ ImageWritesOfRow(rows[i]) = {}
                ELSE \A k \in ErrorsOfRow(rows[i]) : errors[k].reason \notin RangeReasons

\* C10 witness: a row with latitude 90 and longitude -180 was written, and a row with
\* latitude 90.0001 was rejected as latitude out of range
C10_Witness ==
    /\ pc = "done"
    /\ \E i \in 1..Len(rows) :
           /\ normalize_float(rows[i].latitude) = Fin(FALSE, 90, 0)
           /\ normalize_float(rows[i].longitude) = Fin(TRUE, 180, 0)
           /\ ImageWritesOfRow(rows[i]) /= {}
    /\ \E j \in 1..Len(rows) :
           /\ normalize_float(rows[j].latitude) = Fin(FALSE, 90, 10000)
           /\ \E k \in ErrorsOfRow(rows[j]) : errors[k].reason = <<"Latitude out of range">>
           /\ ImageWritesOfRow(rows[j]) = {}

\* the first non-blank row of a CSV file, 0 when every row is blank
FirstNonBlank(file) ==
    IF NonBlankRows(file) = {} THEN 0
    ELSE CHOOSE i \in NonBlankRows(file) : \A j \in NonBlankRows(file) : i <= j

\* the file starts, blank rows aside, with a header
StartsWithHeader(file) == FirstNonBlank(file) /= 0 /\ IsHeaderRow(file[FirstNonBlank(file)])

\* the rows of the file that are data: the non-blank rows, less a header in first place
DataRowsOf(file) ==
    IF StartsWithHeader(file) THEN NonBlankRows(file) \ {FirstNonBlank(file)}
    ELSE NonBlankRows(file)

\* C11: load_csv emits, in file order, exactly the non-blank rows of the file, less the
\* first of them when its trimmed, lower-cased cells hold a name field (filename or
\* image_name), latitude and longitude; a row of header names in any later place is
\* emitted as data, and without a header each emitted row has its first cell as name.
C11_OnlyFirstRowCanBeHeader ==
    pc = "loaded" =>
        /\ Len(rows) = Cardinality(DataRowsOf(csv))
        /\ {rows[k].row : k \in 1..Len(rows)} = DataRowsOf(csv)
        /\ \A k \in 1..(Len(rows) - 1) : rows[k].row < rows[k + 1].row
        /\ ~StartsWithHeader(csv) =>
               \A k \in 1..Len(rows) : rows[k].image_name = Strip(csv[rows[k].row][1])

\* C11 witness: a file of a header with image_name, a data row and a second row of
\* header names was loaded as two data rows, the row of header names the second
C11_Witness ==
    /\ pc = "loaded"
    /\ Len(csv) = 3
    /\ csv[1] = <<H_latitude, H_longitude, H_image_name>>
    /\ csv[3] = <<H_filename, H_latitude, H_longitude>>
    /\ Len(rows) = 2
    /\ rows[2].row = 3
    /\ rows[2].latitude = H_filename

\* the place in the file of the k-th data row
PlaceOfDataRow(file, k) ==
    CHOOSE i \in DataRowsOf(file) : Cardinality({j \in DataRowsOf(file) : j <= i}) = k

\* the number of a row of the file when blank rows take no number
NumberWithoutBlanks(file, i) == Cardinality({j \in NonBlankRows(file) : j <= i})

\* C12: blank rows take no row number: the number main reports for a data row, in
\* errors and in logs, is its place among the non-blank rows of the file, however many
\* blank rows come before it.
C12_BlankRowsTakeNoNumber ==
    pc = "done" =>
        /\ \A k \in 1..Len(rows) :
               rows[k].row = NumberWithoutBlanks(csv, PlaceOfDataRow(csv, k))
        /\ \A e \in 1..Len(result.errors) :
               result.errors[e].row \in
                   {NumberWithoutBlanks(csv, PlaceOfDataRow(csv, k)) : k \in 1..Len(rows)}
        /\ \A l \in 1..Len(result.logs) :
               result.logs[l].row \in
                   {NumberWithoutBlanks(csv, PlaceOfDataRow(csv, k)) : k \in 1..Len(rows)}

\* the trimmed cell of a row in the column the header heads with name: empty when the
\* header has no such column or the row is too short
HeadedCell(hdr, row, name) ==
    LET cols == {i \in 1..Len(hdr) : Lower(Strip(hdr[i])) = name}
    IN  IF cols = {} THEN <<>>
        ELSE LET c == CHOOSE i \in cols : \A j \in cols : j <= i
             IN  IF c <= Len(row) THEN Strip(row[c]) ELSE <<>>

\* the trimmed cell of a row at a fixed position (0-based), empty when the row is too short
CellAt(row, pos) == IF Len(row) > pos THEN Strip(row[pos + 1]) ELSE <<>>

\* the fields of a data row read through a header
FieldsByHeader(hdr, row) ==
    [ image_name |-> IF HeadedCell(hdr, row, H_filename) /= <<>>
                     THEN HeadedCell(hdr, row, H_filename)
                     ELSE HeadedCell(hdr, row, H_image_name),
      latitude   |-> HeadedCell(hdr, row, H_latitude),
      longitude  |-> HeadedCell(hdr, row, H_longitude),
      altitude   |-> HeadedCell(hdr, row, H_altitude),
      phi        |-> HeadedCell(hdr, row, H_phi),
      alpha      |-> HeadedCell(hdr, row, H_alpha),
      kappa      |-> HeadedCell(hdr, row, H_kappa) ]

\* the fields of a data row read by position, orientation in the columns given
FieldsByPosition(row, phiPos, alphaPos, kappaPos) ==
    [ image_name |-> CellAt(row, 0),
      latitude   |-> CellAt(row, 1),
      longitude  |-> CellAt(row, 2),
      altitude   |-> CellAt(row, 3),
      phi        |-> CellAt(row, phiPos),
      alpha      |-> CellAt(row, alphaPos),
      kappa      |-> CellAt(row, kappaPos) ]

\* the fields a loaded row carries
FieldsOf(r) ==
    [ image_name |-> r.image_name, latitude |-> r.latitude, longitude |-> r.longitude,
      altitude |-> r.altitude, phi |-> r.phi, alpha |-> r.alpha, kappa |-> r.kappa ]

\* C13: after a recognised header every data row has its name from the column headed
\* filename or image_name and each of latitude, longitude, altitude, phi, alpha and kappa
\* from the column so headed, whatever the order of the columns; the fixed positions
\* are used only when the file has no header.
C13_HeaderDecidesColumns ==
    pc = "loaded" =>
        \A k \in 1..Len(rows) :
            FieldsOf(rows[k]) =
                IF StartsWithHeader(csv)
                THEN FieldsByHeader(csv[FirstNonBlank(csv)], csv[PlaceOfDataRow(csv, k)])
                ELSE FieldsByPosition(csv[PlaceOfDataRow(csv, k)], 4, 5, 6)

\* C14: a file without a header is read by position in the layout the request's schema
\* variant names: phi, alpha, kappa from columns 4, 5, 6 in the modern layout and from
\* columns 4, 7, 8 in the legacy layout.
C14_BothLayoutsSupported ==
    (pc = "loaded" /\ ~StartsWithHeader(csv)) =>
        \A k \in 1..Len(rows) :
            FieldsOf(rows[k]) =
                IF req.variant = "legacy"
                THEN FieldsByPosition(csv[PlaceOfDataRow(csv, k)], 4, 7, 8)
                ELSE FieldsByPosition(csv[PlaceOfDataRow(csv, k)], 4, 5, 6)

FileWritable(f) == Lower(Suffix(f.name)) \in JpegSuffixes /\ f.img.writable

\* C15: every record process_image returns has exifStatus READ_ONLY when the file is
\* not writable (its extension is not jpg/jpeg, or the OS grants no write permission),
\* whatever the file holds; else OK when the record has GPS; else NO_EXIF.  This is so
\* also when Pillow is absent and when the image cannot be opened.
C15_StatusClassification ==
    scan.pc /= "idle" =>
        \A i \in 1..Len(scan.images) :
            LET r == scan.images[i]
                f == scan.paths[i]
            IN  /\ ~FileWritable(f) => r.exifStatus = "READ_ONLY"
                /\ FileWritable(f) /\ r.hasGps => r.exifStatus = "OK"
                /\ FileWritable(f) /\ ~r.hasGps => r.exifStatus = "NO_EXIF"

\* a file that holds GPS but cannot be written is READ_ONLY, a writable one that
\* cannot be opened is NO_EXIF, and one read without Pillow has its status as well
C15_Witness ==
    /\ scan.pc = "done"
    /\ \E i \in 1..Len(scan.images) :
           /\ scan.images[i].exifStatus = "READ_ONLY"
           /\ scan.images[i].hasGps
    /\ \E i \in 1..Len(scan.images) :
           /\ ~scan.paths[i].opens
           /\ scan.paths[i].img.gps /= None
           /\ scan.images[i].exifStatus = "NO_EXIF"

\* a (degrees, minutes, seconds) triple whose three rationals can be divided out
ValidDms(d) == \A k \in 1..3 : d[k][2] /= 0

\* the files process_image opened: their records are not the base record
Opened(i) == scan.request.pillow /\ scan.paths[i].opens

\* C16: in process_image a failure extracting one field (GPS, orientation, timestamp,
\* camera, dimensions) makes only that field absent: each other field the image yields
\* is present in the record.  Field by field: a latitude, longitude or altitude that
\* decodes is present whichever of the other two does not; the timestamp and camera are
\* present when the metadata holds them, whatever the GPS block and the comment are;
\* the dimensions are present whenever the image opens, also when its metadata does
\* not parse; the orientation of a sidecar is present whatever the metadata is, and the
\* orientation of the comment whatever the GPS block is.
C16_FailuresAreFieldLocal ==
    scan.pc /= "idle" =>
        \A i \in 1..Len(scan.images) :
            Opened(i) =>
                LET r == scan.images[i]
                    f == scan.paths[i]
                    g == f.img.gps
                    x == parse_xmp_sidecar(f.sidecar)
                IN  /\ r.width /= None /\ r.height /= None
                    /\ (\E k \in 1..3 : x[k] /= None) => OrientationOfRecord(r) = x
                    /\ f.img.loadable =>
                          /\ g /= None /\ ValidDms(g.lat) => r.latitude /= None
                          /\ g /= None /\ ValidDms(g.lon) => r.longitude /= None
                          /\ (g /= None /\ g.alt /= None /\ g.alt.den /= 0) => r.altitude /= None
                          /\ f.img.other = "cam" => r.timestamp /= None /\ r.camera /= None
                          /\ (\A k \in 1..3 : x[k] = None) =>
                                OrientationOfRecord(r) = OrientationOfComment(f.img)

\* a scan met an image whose latitude does not decode, and whose altitude, timestamp
\* and camera are in the record, and an image whose metadata does not parse, and whose
\* dimensions and sidecar orientation are in the record
C16_Witness ==
    /\ scan.pc = "done"
    /\ \E i \in 1..Len(scan.images) :
           /\ Opened(i)
           /\ scan.paths[i].img.gps /= None
           /\ ~ValidDms(scan.paths[i].img.gps.lat)
           /\ scan.images[i].latitude = None
           /\ scan.images[i].altitude /= None
           /\ scan.images[i].camera /= None
    /\ \E i \in 1..Len(scan.images) :
           /\ Opened(i)
           /\ ~scan.paths[i].img.loadable
           /\ scan.images[i].timestamp = None
           /\ scan.images[i].width /= None
           /\ scan.images[i].alpha /= None

\* a request main cannot run: folder or csv missing from it, no piexif, the folder not
\* an existing directory, or the CSV not an existing file
RunLevelDefect(r) == ~r.folder \/ ~r.csv \/ ~r.piexif \/ ~r.folderIsDir \/ ~r.csvIsFile

C17_ErrorResult ==
    RunLevelDefect(req) /\ pc /= "start" =>
        /\ pc = "failed"
        /\ result.error /= ""
        /\ result.processed = 0 /\ result.updated = 0 /\ result.skipped = 0
        /\ rows = <<>> /\ errors = <<>> /\ logs = <<>> /\ fsLog = <<>>

C17_NoFileTouched == RunLevelDefect(req) => images' = images /\ sidecars' = sidecars

\* C17: a run-level error of the write-back (folder or csv missing from the request,
\* piexif unavailable, folder not found or not a directory, CSV file not found) gives a
\* result with an error string and processed = updated = skipped = 0, before any row
\* is processed: no row is read or logged and no image file or sidecar is created or
\* modified.
C17_RunLevelErrorAbortsFirst == []C17_ErrorResult /\ [][C17_NoFileTouched]_vars

\* C17 witness: without piexif, a request whose CSV holds a valid row for a writable
\* image of the folder has ended with the error, the image as it was
C17_Witness ==
    /\ pc = "failed"
    /\ ~req.piexif
    /\ csv = <<<<N_a_jpg, T_10, T_20>>>>
    /\ images[N_a_jpg] /= None
    /\ images[N_a_jpg].writable
    /\ images[N_a_jpg].gps = None
    /\ result.error = "piexif is required for write_gps"

\* the progress events of a scan that name k files as processed
EventsAt(k) == {e \in 1..Len(scan.progress) : scan.progress[e].processed = k}

\* C18: every folder scan emits a progress event after every ProgressEvery-th processed
\* file and ends with a last progress event whose percent is 100, whatever the number
\* of image files in the folder is, zero included.
C18_ProgressEndsAtHundred ==
    scan.pc \in {"scanned", "done"} =>
        /\ \A k \in 1..Len(scan.paths) : k % ProgressEvery = 0 => EventsAt(k) /= {}
        /\ scan.progress /= <<>>
        /\ scan.progress[Len(scan.progress)].percent = 100

\* the rows of an exported file after its header
ExportedRows == Tail(scan.exported.rows)

\* how many of the scanned images, and of the exported rows, carry the file name n
ImagesNamed(n) == Cardinality({i \in 1..Len(scan.images) : scan.images[i].filename = n})

RowsNamed(n) == Cardinality({k \in 1..Len(ExportedRows) : ExportedRows[k][1] = n})

\* C19: whenever the scan request has exportCsv set and the folder is valid (the scan
\* ran and the target file can be written), a CSV is written with the header filename,
\* latitude, longitude, altitude, phi, alpha, kappa and one row per scanned image, the
\* rows sorted case-insensitively by file name, and the result carries csvPath; this
\* is so for every value of mode.
C19_ExportWheneverAsked ==
    scan.pc = "done" /\ scan.request.exportCsv /\ scan.request.exportOk =>
        /\ scan.exported /= None
        /\ "csvPath" \in DOMAIN scan.result
        /\ scan.exported.rows[1] = ExportHeader
        /\ Len(ExportedRows) = Len(scan.images)
        /\ \A i \in 1..Len(scan.images) :
               RowsNamed(scan.images[i].filename) = ImagesNamed(scan.images[i].filename)
        /\ \A k \in 1..(Len(ExportedRows) - 1) :
               TextLeq(Lower(ExportedRows[k][1]), Lower(ExportedRows[k + 1][1]))

\* a cell that is present and does not parse as a number
Unparseable(cell) == cell /= <<>> /\ normalize_float(cell) = None

OrientationCells(r) == <<r.phi, r.alpha, r.kappa>>

\* the row has an altitude or orientation cell that is present and does not parse
HasUnparseableOptional(r) ==
    Unparseable(r.altitude) \/ \E i \in 1..3 : Unparseable(OrientationCells(r)[i])

\* the reason of the log entry of a written row: the orientation cells that do not
\* parse, named in the order phi, alpha, kappa, or OK when there is none
RECURSIVE NamesFrom(_, _)
NamesFrom(r, i) ==
    IF i > 3 THEN <<>>
    ELSE (IF Unparseable(OrientationCells(r)[i])
          THEN <<<<"Invalid phi", "Invalid alpha", "Invalid kappa">>[i]>> ELSE <<>>)
         \o NamesFrom(r, i + 1)

ReasonOfWrittenRow(r) ==
    IF NamesFrom(r, 1) = <<>> THEN <<"OK">> ELSE JoinWarnings(NamesFrom(r, 1))

\* C20: a row that passes the nine checks and has an altitude or orientation cell that
\* is present and does not parse is not failed for it: no error is recorded for the row
\* unless the write of the image itself fails; the image is written with the GPS of the
\* row, without altitude when the altitude does not parse; the comment written names
\* exactly the orientation fields that parse; the row counts as updated; and the reason
\* of its successful log entry names the orientation fields that do not parse.
C20_UnparseableOptionalDropped ==
    [][ (AtRow /\ FirstFailure(rows[rowIdx]) = 0 /\ HasUnparseableOptional(rows[rowIdx]))
        => LET r == rows[rowIdx]
               n == PathOfRow(r)
               o == OrientationOfRow(r)
           IN  IF errors' /= errors
               THEN /\ SubSeq(errors'[Len(errors')].reason, 1, 1) = <<"Failed to write GPS for ">>
                    /\ images' = images
               ELSE /\ updated' = updated + 1
                    /\ skipped' = skipped
                    /\ images'[n].gps /= None
                    /\ images'[n].gps.lat = to_rational(normalize_float(r.latitude))
                    /\ images'[n].gps.lon = to_rational(normalize_float(r.longitude))
                    /\ Unparseable(r.altitude) => images'[n].gps.alt = None
                    /\ \A i \in 1..3 : Unparseable(OrientationCells(r)[i]) => o[i] = None
                    /\ IF o = NoOrientation
                       THEN SameComment(images'[n].comment, images[n].comment)
                       ELSE CommentHasExactly(images'[n].comment, o)
                    /\ logs'[Len(logs')].success
                    /\ logs'[Len(logs')].row = r.row
                    /\ logs'[Len(logs')].reason = ReasonOfWrittenRow(r) ]_vars

\* C20 witness: the row a.jpg,90,-180,x,1.5,bad was written: the image carries the GPS
\* without altitude and a comment of phi alone, and the log entry of the row is a
\* success whose reason is "Invalid alpha"
C20_Witness ==
    /\ pc = "done"
    /\ \E i \in 1..Len(rows) :
           /\ Unparseable(rows[i].altitude)
           /\ Unparseable(rows[i].alpha)
           /\ ImageWritesOfRow(rows[i]) /= {}
           /\ result.updated >= 1
           /\ images[PathOfRow(rows[i])].gps.alt = None
           /\ images[PathOfRow(rows[i])].gps.lat_ref = "N"
           /\ CommentHasExactly(images[PathOfRow(rows[i])].comment, <<F_1, None, None>>)
           /\ \E k \in LogsOfRow(rows[i]) :
                  logs[k].success /\ logs[k].reason = <<"Invalid alpha">>

\* the denominators of a (degrees, minutes, seconds) triple
Denominators(dms) == {dms[k][2] : k \in 1..3}

\* C23: dms_to_decimal returns None whenever one of the three rationals has a zero
\* denominator, and to_rational never yields a zero denominator: for every input, None
\* included, the three denominators are 1 or 10000.
C23_NoZeroDenominator ==
    /\ (codec.task = "dms" /\ codec.stage = "decoded" /\ 0 \in Denominators(codec.dms))
           => codec.decoded = None
    /\ (codec.task = "rational" /\ codec.stage = "encoded")
           => Denominators(codec.dms) \subseteq {1, 10000}
    /\ (codec.task = "coordinate" /\ codec.stage = "encoded")
           => Denominators(codec.gps.lat) \cup Denominators(codec.gps.lon) \subseteq {1, 10000}

\* C23 witness: a triple whose minutes are 15/0 was decoded to None
C23_Witness ==
    /\ codec.task = "dms"
    /\ codec.stage = "decoded"
    /\ codec.dms = <<<<30, 1>>, <<15, 0>>, <<123456, SecondsDen>>>>
    /\ codec.decoded = None

\* a (degrees, minutes, seconds) triple with whole minutes in 0..59 and seconds below 60
Normalised(dms) ==
    /\ dms[2][2] = 1 /\ dms[2][1] \in 0..59
    /\ dms[3][2] = SecondsDen /\ dms[3][1] >= 0 /\ dms[3][1] < 60 * SecondsDen

\* C26: for every coordinate value to_rational returns a normalised sexagesimal triple:
\* the minutes numerator is in 0..59 and the seconds numerator is strictly below 600000
\* (seconds < 60 with denominator 10000): the rounding of the seconds never gives
\* 60.0000 seconds.
C26_SecondsBelowSixty ==
    /\ (codec.task = "rational" /\ codec.stage = "encoded" /\ codec.dec /= None)
           => Normalised(codec.dms)
    /\ (codec.task = "coordinate" /\ codec.stage = "encoded")
           => Normalised(codec.gps.lat) /\ Normalised(codec.gps.lon)

\* the image writes of the batch onto the file n, as places of fsLog
ImageWritesOnto(n) == {k \in 1..Len(fsLog) : fsLog[k].what = "image" /\ fsLog[k].path = n}

\* the row whose write was the last one onto the file n
LastRowOnto(n) ==
    LET last == CHOOSE k \in ImageWritesOnto(n) : \A j \in ImageWritesOnto(n) : j <= k
    IN  rows[CHOOSE i \in 1..Len(rows) : rows[i].row = fsLog[last].row]

\* the magnitudes of two finite numbers differ by at most 0.01
MagnitudesWithinHundredth(x, y) ==
    /\ x.whole - y.whole \in {-1, 0, 1}
    /\ (x.whole - y.whole) * Scale + x.frac - y.frac <= Scale \div 100
    /\ (y.whole - x.whole) * Scale + y.frac - x.frac <= Scale \div 100

\* C28: an altitude written by a successful row is read back by the scanner with the
\* same sign and the same value to within 0.01: an altitude below sea level is stored
\* with the reference byte 1 and reads back negative.
C28_AltitudeRoundTrip ==
    (record /= None /\ ImageWritesOnto(record.filename) /= {})
        => LET a == ParsedRow(LastRowOnto(record.filename)).alt
           IN  a /= None =>
                 /\ images[record.filename].gps.alt.ref = (IF FloatGeqZero(a) THEN 0 ELSE 1)
                 /\ IsFin(record.altitude)
                 /\ MagnitudesWithinHundredth(a, record.altitude)
                 /\ SameSign(a, record.altitude)

\* C24: after a row with at least one orientation field is reported as written, reading
\* the orientation of its image (extract_orientation with the image path, as
\* process_image does) returns exactly the orientation triple of the row, whatever
\* sidecar or embedded comment the image had before the write.
C24_WrittenOrientationReadBack ==
    (record /= None /\ ImageWritesOnto(record.filename) /= {})
        => LET o == OrientationOfRow(LastRowOnto(record.filename))
           IN  o /= NoOrientation => OrientationOfRecord(record) = o

\* C25: in every record process_image returns, the latitude is present if and only if
\* the longitude is, and hasGps is true exactly when both are present: no record
\* carries one coordinate without the other.
C25_CoordinatesComeTogether ==
    scan.pc /= "idle" =>
        \A i \in 1..Len(scan.images) :
            LET r == scan.images[i]
            IN  /\ (r.latitude /= None) <=> (r.longitude /= None)
                /\ r.hasGps <=> (r.latitude /= None /\ r.longitude /= None)

\* the row numbers of a list of entries increase along the list
InRowOrder(entries) ==
    \A j \in 1..Len(entries), k \in 1..Len(entries) : j < k => entries[j].row < entries[k].row

\* C27: after a write-back batch the errors list holds exactly one entry for each
\* skipped row and none for an updated row, so that len(errors) = skipped, and the
\* entries of errors and of logs are in the order of their rows in the CSV.
C27_ErrorsMatchSkippedInOrder ==
    pc = "done" =>
        /\ Len(result.errors) = result.skipped
        /\ \A i \in 1..Len(rows) :
               Cardinality({k \in 1..Len(result.errors) : result.errors[k].row = rows[i].row})
                   = (IF ImageWritesOfRow(rows[i]) = {} THEN 1 ELSE 0)
        /\ \A k \in 1..Len(result.errors) : \E i \in 1..Len(rows) : result.errors[k].row = rows[i].row
        /\ InRowOrder(result.errors)
        /\ InRowOrder(result.logs)
        /\ \A i \in 1..(Len(rows) - 1) : rows[i].row < rows[i + 1].row

\* C27 witness: a batch of two rows ended with the first row updated and the second
\* skipped: one error, for the second row, and two log entries in row order
C27_Witness ==
    /\ pc = "done"
    /\ Len(rows) = 2
    /\ result.updated = 1
    /\ result.skipped = 1
    /\ Len(result.errors) = 1
    /\ result.errors[1].row = rows[2].row
    /\ Len(result.logs) = 2
    /\ result.logs[1].success
    /\ ~result.logs[2].success

\* C29: a successful write for a row replaces the whole GPS block of the image with the
\* values of the row (an altitude stored before is gone when the row has none) and,
\* when the metadata of the image could be loaded, leaves every other embedded tag as
\* it was; when the row has no orientation, the embedded comment and the sidecar are
\* left as they were.
C29_WriteReplacesGpsOnly ==
    [][ (AtRow /\ updated' = updated + 1)
        => LET r == rows[rowIdx]
               n == PathOfRow(r)
               p == ParsedRow(r)
           IN  /\ images'[n].gps.lat = to_rational(p.lat)
               /\ images'[n].gps.lon = to_rational(p.lon)
               /\ images'[n].gps.lat_ref = (IF FloatGeqZero(p.lat) THEN "N" ELSE "S")
               /\ images'[n].gps.lon_ref = (IF FloatGeqZero(p.lon) THEN "E" ELSE "W")
               /\ (p.alt = None) <=> (images'[n].gps.alt = None)
               /\ images[n].loadable => images'[n].other = images[n].other
               /\ images'[n].writable = images[n].writable
               /\ \A m \in FileNames \ {n} : images'[m] = images[m] /\ sidecars'[m] = sidecars[m]
               /\ OrientationOfRow(r) = NoOrientation =>
                     /\ sidecars'[n] = sidecars[n]
                     /\ images[n].loadable => SameComment(images'[n].comment, images[n].comment)
      ]_vars

\* C29 witness: the row a.jpg,10.0,20.0 was written onto an image that held a GPS block
\* with an altitude, camera tags, an orientation comment and a sidecar: the altitude is
\* gone, the latitude is the row's, and the tags, the comment and the sidecar are there
C29_Witness ==
    /\ pc = "done"
    /\ csv = <<<<N_a_jpg, T_10, T_20>>>>
    /\ result.updated = 1
    /\ images[N_a_jpg].gps.alt = None
    /\ images[N_a_jpg].gps.lat = to_rational(Fin(FALSE, 10, 0))
    /\ images[N_a_jpg].other = "cam"
    /\ SameComment(OldComment, images[N_a_jpg].comment)
    /\ sidecars[N_a_jpg] = build_xmp_packet(F_2, None, None)

\* the name is Flight_ in any letter case, two digits, _ and four digits, and no more
IsFlightStem(t) ==
    /\ Len(t) = 14
    /\ Lower(SubSeq(t, 1, 6)) = <<"f", "l", "i", "g", "h", "t">>
    /\ t[7] = "_" /\ t[10] = "_"
    /\ \A k \in {8, 9, 11, 12, 13, 14} : t[k] \in {DigitChars[d] : d \in 1..10}

\* C21: parse_flight_filename returns (flight, image) as integers exactly when the file
\* name without its extension is Flight_ (in any letter case), exactly two digits, _
\* and exactly four digits, with nothing before or after; for every other file name it
\* returns (None, None).
C21_FlightNamesOnly ==
    (util.task = "parse" /\ util.pc = "returned") =>
        IF IsFlightStem(PathStem(util.filename))
        THEN /\ util.out.kind = "flight"
             /\ util.out.flight = DigitsToNat(SubSeq(PathStem(util.filename), 8, 9))
             /\ util.out.image = DigitsToNat(SubSeq(PathStem(util.filename), 11, 14))
        ELSE util.out = NoFlight

\* the names of a list
Listed(filenames) == {filenames[k] : k \in 1..Len(filenames)}

\* every copy made took a listed name that is a regular file of the source folder and
\* put it under that name in the destination folder
CopiesAreListedSourceFiles ==
    \A k \in 1..Len(util.copies) :
        LET c == util.copies[k]
        IN  /\ c.filename \in Listed(util.filenames)
            /\ c.from = <<"src", c.filename>>
            /\ util.fs0.src[c.filename].kind = "file"
            /\ c.to = <<"dst", c.filename>>

\* nothing but the copies changed a folder
OnlyCopiesChangeFolders ==
    \A loc \in DOMAIN util.fs : \A n \in CopyNames :
        util.fs[loc][n] /= util.fs0[loc][n] =>
            \E k \in 1..Len(util.copies) : util.copies[k].to = <<loc, n>>

\* C22: copy_selected_files copies only the listed file names that exist as regular
\* files in the source folder, never copies a file that is not listed, goes on past a
\* name that is missing or fails to copy, and returns copied_count equal to the number
\* of copies that succeeded.
C22_CopiesOnlyListedSourceFiles ==
    (util.task = "copy") =>
        /\ CopiesAreListedSourceFiles
        /\ OnlyCopiesChangeFolders
        /\ util.copied_count = Len(util.copies)
        /\ (util.pc = "returned") =>
              /\ util.i = Len(util.filenames) + 1
              /\ Len(util.copies) + Len(util.stderr) = Len(util.filenames)
              /\ util.result = [success |-> TRUE, copied_count |-> Len(util.copies)]

\* the files a folder holds in the one state and not in the other
FilesBeyond(a, b) ==
    {p \in RenameLocs \X UNION {DOMAIN a[l].files : l \in RenameLocs} :
        p[2] \in DOMAIN a[p[1]].files /\ p[2] \notin DOMAIN b[p[1]].files}

FilesCreated == FilesBeyond(util.fs, util.fs0)

FilesDeleted == FilesBeyond(util.fs0, util.fs)

\* the files that were there before and hold something else now
FilesRewritten ==
    {p \in RenameLocs \X UNION {DOMAIN util.fs0[l].files : l \in RenameLocs} :
        /\ p[2] \in DOMAIN util.fs0[p[1]].files
        /\ p[2] \in DOMAIN util.fs[p[1]].files
        /\ util.fs[p[1]].files[p[2]] /= util.fs0[p[1]].files[p[2]]}

\* the output folder of a run in mode execute or undo
OutputOf(payload) == IF payload.output = "" THEN "renamed" ELSE payload.output

\* the files the manifest of the output folder listed before the run
LastManifestFiles ==
    LET files == util.fs0[OutputOf(util.payload)].files
    IN  IF MANIFEST_NAME \in DOMAIN files /\ files[MANIFEST_NAME].kind = "manifest"
        THEN {files[MANIFEST_NAME].targets[k] : k \in DOMAIN files[MANIFEST_NAME].targets}
        ELSE {}

\* C30: process changes the filesystem only in mode execute (copies into the output
\* folder, never onto a file that is already there, and the manifest) and in mode undo
\* (deletes the files of the last manifest and the manifest); in every other mode,
\* preview, scan and unrecognised strings among them, no file is created, copied or
\* deleted.
C30_OnlyExecuteAndUndoTouchFiles ==
    (util.task = "rename") =>
        LET mode == ModeOf(util.payload)
            manifest == <<OutputOf(util.payload), MANIFEST_NAME>>
        IN  IF mode = "execute"
            THEN /\ FilesDeleted = {}
                 /\ FilesRewritten \subseteq {manifest}
                 /\ \A p \in FilesCreated :
                       /\ p[1] = OutputOf(util.payload)
                       /\ p = manifest \/
                            \E n \in DOMAIN util.fs0.src.files :
                                util.fs[p[1]].files[p[2]] = util.fs0.src.files[n]
            ELSE IF mode = "undo"
            THEN /\ FilesCreated = {}
                 /\ FilesRewritten = {}
                 /\ FilesDeleted \subseteq LastManifestFiles \cup {manifest}
            ELSE FilesCreated = {} /\ FilesRewritten = {} /\ FilesDeleted = {}

====
